---------------------------- MODULE Spec2Model ----------------------------
(***************************************************************************)
(* Model of the terminal-command service (TerminalService) and of the      *)
(* Claude Code provider built on it (ClaudeCodeAIProvider), from           *)
(* src/src/ai-providers/claude-code.js.                                    *)
(*                                                                         *)
(* JavaScript strings are tuples of one-character strings, so that the     *)
(* regular expressions, trim/split/startsWith, substring and the           *)
(* concatenation of the truncation marker are computed character by        *)
(* character.  A flag that the code leaves off a result object (undefined) *)
(* is FALSE, a stream it leaves off is the empty string: the code only     *)
(* ever tests them for truthiness.                                         *)
(***************************************************************************)
EXTENDS Integers, Sequences, FiniteSets

VARIABLES
    maxOutputLength, \* this.maxOutputLength, set once by the constructor
    safeCommands,    \* this.safeCommands, the allow-list built by the constructor
    op,              \* the operation in progress
    commands,        \* its command list (one element for a single command)
    options,         \* its options object
    pc,              \* where that operation stands
    idx,             \* position of the for-loop of executeCommands
    results,         \* the results array of executeCommands
    exec,            \* the executeCommand invocation in flight
    events,          \* history: classifications, spawns, kills of the operation
    ret,             \* completion of the operation: returned value or thrown error
    arg,             \* the argument of a meta-command
    context,         \* the context object of a meta-command
    calls,           \* history: the functions the operation has entered
    dispatched,      \* the command text handed to a meta-command dispatcher
    params,          \* the params object of generateText
    sent,            \* history: the parameters handed to the text generation
    formatted        \* what the formatters have returned

vars == <<maxOutputLength, safeCommands, op, commands, options, pc, idx, results, exec, events, ret,
          arg, context, calls, dispatched, params, sent, formatted>>

---------------------------------------------------------------------------
(* Bounds of the model. *)

\* largest output budget the constructor is given (the default is 10000)
MaxBudget == 40
\* longest command list handed to executeCommands
MaxBatch == 2

\* this.timeout = options.timeout || 30000
DefaultTimeout == 30000

---------------------------------------------------------------------------
(* JavaScript values that are not strings: numbers, null, error codes. *)

JSNum(n) == [t |-> "number", n |-> n, s |-> ""]
JSStr(s) == [t |-> "string", n |-> 0, s |-> s]
JSNull == [t |-> "null", n |-> 0, s |-> ""]
JSBool(b) == [t |-> "boolean", b |-> b]

\* ToBoolean
Truthy(v) ==
    CASE v.t = "number" -> v.n # 0
      [] v.t = "string" -> v.s # ""
      [] OTHER -> FALSE

\* a || b
OrElse(a, b) == IF Truthy(a) THEN a ELSE b

\* a || b on strings: the empty string is falsy
StrOrElse(a, b) == IF a # <<>> THEN a ELSE b

---------------------------------------------------------------------------
(* Characters and string primitives. *)

\* characters that a TLA+ string cannot hold, each one character of the
\* JavaScript string it occurs in: the backquote and the marks of formatResult
Backquote == "U+0060"
CheckMark == "U+2713"
BallotX == "U+2717"

UpperChars == <<"A","B","C","D","E","F","G","H","I","J","K","L","M","N","O","P","Q","R","S","T","U","V","W","X","Y","Z">>
LowerChars == <<"a","b","c","d","e","f","g","h","i","j","k","l","m","n","o","p","q","r","s","t","u","v","w","x","y","z">>

\* the lower-case letter of each upper-case letter
LowerOf ==
    [c \in {UpperChars[i] : i \in 1..Len(UpperChars)} |->
        LowerChars[CHOOSE i \in 1..Len(UpperChars) : UpperChars[i] = c]]

\* canonicalisation of the /i flag
ToLower(c) == IF c \in DOMAIN LowerOf THEN LowerOf[c] ELSE c

\* \s of a regular expression, and the characters trim() removes
IsWhitespace(c) == c \in {" ", "\t", "\n", "\r"}

\* the characters that . of a regular expression does not match
IsLineTerminator(c) == c \in {"\n", "\r"}

\* the literal lit occurs in s at position i
MatchAt(s, i, lit) ==
    /\ i >= 1
    /\ i + Len(lit) - 1 <= Len(s)
    /\ \A k \in 1..Len(lit) : s[i + k - 1] = lit[k]

\* the same, ignoring case (lit is written in lower case)
MatchAtI(s, i, lit) ==
    /\ i >= 1
    /\ i + Len(lit) - 1 <= Len(s)
    /\ \A k \in 1..Len(lit) : ToLower(s[i + k - 1]) = lit[k]

\* String.prototype.startsWith
StartsWith(s, prefix) == MatchAt(s, 1, prefix)

\* String.prototype.trim
Trim(s) ==
    LET keep == {i \in 1..Len(s) : ~IsWhitespace(s[i])}
    IN  IF keep = {} THEN <<>>
        ELSE LET first == CHOOSE i \in keep : \A j \in keep : i <= j
                 last == CHOOSE i \in keep : \A j \in keep : j <= i
             IN  SubSeq(s, first, last)

\* s.split(' ')[0]
FirstToken(s) ==
    LET spaces == {i \in 1..Len(s) : s[i] = " "}
    IN  IF spaces = {} THEN s
        ELSE SubSeq(s, 1, (CHOOSE i \in spaces : \A j \in spaces : i <= j) - 1)

\* String.prototype.substring(0, n)
Substring0(s, n) == SubSeq(s, 1, IF n < Len(s) THEN n ELSE Len(s))

---------------------------------------------------------------------------
(* TerminalService: the policy. *)

\* the literal the constructor builds this.safeCommands from
ConstructedSafeCommands ==
    { <<"l","s">>, <<"p","w","d">>, <<"e","c","h","o">>, <<"c","a","t">>, <<"g","r","e","p">>, <<"f","i","n","d">>, <<"w","h","i","c","h">>,
      <<"n","p","m"," ","l","i","s","t">>, <<"n","p","m"," ","r","u","n">>, <<"y","a","r","n"," ","l","i","s","t">>, <<"y","a","r","n"," ","r","u","n">>,
      <<"g","i","t"," ","s","t","a","t","u","s">>, <<"g","i","t"," ","l","o","g">>, <<"g","i","t"," ","b","r","a","n","c","h">>, <<"g","i","t"," ","d","i","f","f">>, <<"g","i","t"," ","-","-","v","e","r","s","i","o","n">>,
      <<"n","o","d","e"," ","-","-","v","e","r","s","i","o","n">>, <<"n","p","m"," ","-","-","v","e","r","s","i","o","n">>, <<"y","a","r","n"," ","-","-","v","e","r","s","i","o","n">> }

\* /rm\s+-rf/i
PatRmRf(s) ==
    \E i \in 1..Len(s) :
        /\ MatchAtI(s, i, <<"r","m">>)
        /\ \E j \in (i + 3)..Len(s) :
            /\ MatchAtI(s, j, <<"-","r","f">>)
            /\ \A k \in (i + 2)..(j - 1) : IsWhitespace(s[k])

\* />\s*\/dev\/null/
PatDevNull(s) ==
    \E i \in 1..Len(s) :
        /\ s[i] = ">"
        /\ \E j \in (i + 1)..Len(s) :
            /\ MatchAt(s, j, <<"/","d","e","v","/","n","u","l","l">>)
            /\ \A k \in (i + 1)..(j - 1) : IsWhitespace(s[k])

\* /sudo/i
PatSudo(s) == \E i \in 1..Len(s) : MatchAtI(s, i, <<"s","u","d","o">>)

\* /chmod\s+777/i
PatChmod777(s) ==
    \E i \in 1..Len(s) :
        /\ MatchAtI(s, i, <<"c","h","m","o","d">>)
        /\ \E j \in (i + 6)..Len(s) :
            /\ MatchAtI(s, j, <<"7","7","7">>)
            /\ \A k \in (i + 5)..(j - 1) : IsWhitespace(s[k])

\* /<tool>.*\|.*sh/i for a four-letter tool name
PatPipeToShell(s, tool) ==
    \E i \in 1..Len(s) :
        /\ MatchAtI(s, i, tool)
        /\ \E j \in (i + 4)..Len(s) :
            /\ s[j] = "|"
            /\ \E k \in (j + 1)..Len(s) :
                /\ MatchAtI(s, k, <<"s","h">>)
                /\ \A m \in ((i + 4)..(j - 1)) \cup ((j + 1)..(k - 1)) :
                        ~IsLineTerminator(s[m])

\* /curl.*\|.*sh/i
PatCurlSh(s) == PatPipeToShell(s, <<"c","u","r","l">>)

\* /wget.*\|.*sh/i
PatWgetSh(s) == PatPipeToShell(s, <<"w","g","e","t">>)

\* the for-loop over dangerousPatterns
MatchesDangerousPattern(command) ==
    \/ PatRmRf(command)
    \/ PatDevNull(command)
    \/ PatSudo(command)
    \/ PatChmod777(command)
    \/ PatCurlSh(command)
    \/ PatWgetSh(command)

\* the allow-list test on the leading token alone
LeadingTokenIsSafeCommand(command) == FirstToken(Trim(command)) \in safeCommands

\* the allow-list test as an exact match of the whole command
IsExactlySafeCommand(command) == command \in safeCommands

\* the allow-list test that follows the loop
StartsWithSafeCommand(command) ==
    LET baseCommand == FirstToken(Trim(command))
    IN  \/ baseCommand \in safeCommands
        \/ \E safe \in safeCommands : StartsWith(command, safe)

\* isCommandSafe with the allow-list consulted before the deny patterns
IsCommandSafeAllowFirst(command) ==
    IF StartsWithSafeCommand(command) THEN TRUE
    ELSE FALSE

\* isCommandSafe without the allow-list test
IsCommandSafeDenyOnly(command) == ~MatchesDangerousPattern(command)

\* isCommandSafe(command)
isCommandSafe(command) ==
    IF MatchesDangerousPattern(command) THEN FALSE
    ELSE StartsWithSafeCommand(command)

---------------------------------------------------------------------------
(* TerminalService: results. *)

TruncationMarker == <<"\n",".",".","."," ","(","o","u","t","p","u","t"," ","t","r","u","n","c","a","t","e","d",")">>
BlockedMessage == <<"C","o","m","m","a","n","d"," ","b","l","o","c","k","e","d"," ","f","o","r"," ","s","a","f","e","t","y"," ","r","e","a","s","o","n","s">>

\* truncateOutput(output)
truncateOutput(output) ==
    IF output = <<>> \/ Len(output) <= maxOutputLength
    THEN output
    ELSE Substring0(output, maxOutputLength) \o TruncationMarker

\* completion records of a call: a returned value or a thrown error
Return(v) == [kind |-> "return", value |-> v]
Throw(e) == [kind |-> "throw", value |-> e]

\* the object returned in the safety-check branch, with exit code 0
BlockedResultExitZero(command) ==
    [command |-> command, stdout |-> <<>>, stderr |-> BlockedMessage,
     exitCode |-> JSNum(0), duration |-> 0,
     blocked |-> TRUE, truncated |-> FALSE, error |-> FALSE]

\* the object returned in the safety-check branch of executeCommand
BlockedResult(command) ==
    [command |-> command, stdout |-> <<>>, stderr |-> BlockedMessage,
     exitCode |-> JSNum(1), duration |-> 0,
     blocked |-> TRUE, truncated |-> FALSE, error |-> FALSE]

\* the object returned after execAsync resolved
SuccessResult(command, stdout, stderr, duration) ==
    [command |-> command,
     stdout |-> truncateOutput(stdout),
     stderr |-> truncateOutput(stderr),
     exitCode |-> JSNum(0), duration |-> duration,
     blocked |-> FALSE,
     truncated |-> (Len(stdout) > maxOutputLength \/ Len(stderr) > maxOutputLength),
     error |-> FALSE]

\* the catch block of executeCommand without the error flag
FailureResultNoFlag(command, error, duration) ==
    [command |-> command,
     stdout |-> truncateOutput(StrOrElse(error.stdout, <<>>)),
     stderr |-> truncateOutput(StrOrElse(error.stderr, error.message)),
     exitCode |-> OrElse(error.code, JSNum(1)), duration |-> duration,
     blocked |-> FALSE, truncated |-> FALSE, error |-> FALSE]

\* the object returned by the catch block of executeCommand
FailureResult(command, error, duration) ==
    [command |-> command,
     stdout |-> truncateOutput(StrOrElse(error.stdout, <<>>)),
     stderr |-> truncateOutput(StrOrElse(error.stderr, error.message)),
     exitCode |-> OrElse(error.code, JSNum(1)), duration |-> duration,
     blocked |-> FALSE, truncated |-> FALSE, error |-> TRUE]

\* a catch block that lets the error escape
CatchRethrow(command, error, duration) == Throw(error)

\* catch (error) { ... return {...} } of executeCommand
CatchExecuteCommand(command, error, duration) ==
    Return(FailureResult(command, error, duration))

---------------------------------------------------------------------------
(* The child process behind exec and execSync. *)

\* an output of n characters, in lines of three
LongOutput(n) == [i \in 1..n |-> IF i % 4 = 0 THEN "\n" ELSE "x"]

\* what a spawned process turns out to do: whether the shell could be spawned
\* at all (the binary and the cwd exist), how long it runs by itself, its exit
\* code and what it writes
Behaviours ==
    { [spawnOk |-> TRUE, dur |-> 10, code |-> 0,
       stdout |-> <<"a","\n"," ","\n","\n","b","\n">>, stderr |-> <<>>],
      [spawnOk |-> TRUE, dur |-> 10, code |-> 0,
       stdout |-> LongOutput(maxOutputLength + 1), stderr |-> <<"w">>],
      [spawnOk |-> TRUE, dur |-> 10, code |-> 0,
       stdout |-> LongOutput(maxOutputLength), stderr |-> LongOutput(maxOutputLength + 2)],
      [spawnOk |-> TRUE, dur |-> 10, code |-> 2,
       stdout |-> <<>>, stderr |-> <<"n","o">>],
      [spawnOk |-> TRUE, dur |-> 10, code |-> 1,
       stdout |-> LongOutput(maxOutputLength + 1), stderr |-> LongOutput(maxOutputLength + 30)],
      [spawnOk |-> TRUE, dur |-> 50, code |-> 0,
       stdout |-> <<"a">>, stderr |-> <<>>],
      [spawnOk |-> TRUE, dur |-> 60000, code |-> 0,
       stdout |-> <<"a","\n","b">>, stderr |-> <<>>],
      [spawnOk |-> FALSE, dur |-> 0, code |-> 0,
       stdout |-> <<>>, stderr |-> <<>>] }

NoBehaviour == [spawnOk |-> FALSE, dur |-> 0, code |-> 0, stdout |-> <<>>, stderr |-> <<>>]

\* timeout: options.timeout || this.timeout
EffectiveTimeout(opts) == IF opts.timeout # 0 THEN opts.timeout ELSE DefaultTimeout

\* the error exec hands to its callback: the spawn failed, the child was
\* killed on timeout (code null), or it exited with a nonzero code
ExecError(command, b, how) ==
    CASE how = "failed" ->
            [message |-> <<"s","p","a","w","n"," ","/","b","i","n","/","s","h"," ","E","N","O","E","N","T">>, stdout |-> <<>>, stderr |-> <<>>,
             code |-> JSStr("ENOENT"), killed |-> FALSE]
      [] how = "killed" ->
            [message |-> <<"C","o","m","m","a","n","d"," ","f","a","i","l","e","d",":"," ">> \o command \o <<"\n">> \o b.stderr,
             stdout |-> b.stdout, stderr |-> b.stderr,
             code |-> JSNull, killed |-> TRUE]
      [] OTHER ->
            [message |-> <<"C","o","m","m","a","n","d"," ","f","a","i","l","e","d",":"," ">> \o command \o <<"\n">> \o b.stderr,
             stdout |-> b.stdout, stderr |-> b.stderr,
             code |-> JSNum(b.code), killed |-> FALSE]

---------------------------------------------------------------------------
(* Inputs. *)

CommandHeads ==
    { <<"l","s">>, <<" ","l","s">>, <<"l","s","o","f">>, <<"g","i","t"," ","s","t","a","t","u","s">>, <<"e","c","h","o">>, <<"e","c","h","o"," ","c","u","r","l","\n">>,
      <<"n","p","m"," ","t","e","s","t">>, <<"r","m">>, <<"R","M"," ">>, <<"c","u","r","l"," ","h","t","t","p",":","/","/","x">>, <<"w","g","e","t"," ","x">>, <<"c","h","m","o","d">>,
      <<"S","U","D","O">>, <<"s","u","d","o"," ","a","n","y","t","h","i","n","g">>, <<>> }

CommandTails ==
    { <<>>, <<" ","-","l","a">>, <<" ","-","r","f"," ","/">>, <<" ","|"," ","s","u","d","o"," ","x">>, <<" ","|"," ","s","h">>, <<" ",">"," ","/","d","e","v","/","n","u","l","l">>,
      <<" ","7","7","7"," ","f">> }

\* the command strings a caller passes to executeCommand and executeCommandSync
Commands == {h \o t : h \in CommandHeads, t \in CommandTails}

\* the command strings a caller puts in the lists it passes to executeCommands
BatchCommands == { <<"l","s">>, <<"e","c","h","o"," ","|"," ","s","u","d","o"," ","x">>, <<"n","p","m"," ","t","e","s","t">> }

RECURSIVE SeqsUpTo(_, _)
\* the sequences over S of length at most n
SeqsUpTo(S, n) ==
    IF n = 0 THEN {<<>>}
    ELSE LET shorter == SeqsUpTo(S, n - 1)
         IN  shorter \cup {Append(q, x) : q \in {r \in shorter : Len(r) = n - 1}, x \in S}

\* options objects; timeout 0 stands for an absent timeout
OptionSets ==
    [skipSafetyCheck : BOOLEAN, continueOnError : BOOLEAN, timeout : {0, 50}]

\* the budgets the constructor is given
Budgets == {MaxBudget}

---------------------------------------------------------------------------
(* TerminalService: executeCommand, as the steps between its awaits. *)

Event(kind, inv, command) == [ev |-> kind, inv |-> inv, cmd |-> command]

IdleExec ==
    [state |-> "idle", inv |-> 0, command |-> <<>>, timeout |-> 0,
     beh |-> NoBehaviour, ended |-> "", elapsed |-> 0, completion |-> Return(<<>>)]

\* executeCommand that adds the leading token of a command it ran unchecked to
\* the allow-list
BeginExecuteCommandTrusting(command, opts, inv, log) ==
    /\ IF ~opts.skipSafetyCheck /\ ~isCommandSafe(command)
       THEN /\ exec' = [IdleExec EXCEPT !.state = "settled", !.inv = inv,
                                        !.command = command,
                                        !.completion = Return(BlockedResult(command))]
            /\ events' = Append(log, Event("blocked", inv, command))
       ELSE \E b \in Behaviours :
            /\ exec' = [IdleExec EXCEPT !.state = "running", !.inv = inv,
                                        !.command = command,
                                        !.timeout = EffectiveTimeout(opts),
                                        !.beh = b]
            /\ events' = log
                   \o (IF opts.skipSafetyCheck THEN <<>>
                       ELSE <<Event("allowed", inv, command)>>)
                   \o <<Event("spawn", inv, command)>>
    /\ safeCommands' = IF opts.skipSafetyCheck
                       THEN safeCommands \cup {FirstToken(Trim(command))}
                       ELSE safeCommands

\* executeCommand up to its first await: the safety check, then either the
\* blocked result or the call of execAsync, which spawns the shell.
\* inv numbers the invocation within the operation, log is the history so far.
\* isCommandSafe reads this.safeCommands and builds its patterns afresh; neither
\* it nor executeCommand assigns to the allow-list.
BeginExecuteCommand(command, opts, inv, log) ==
    /\ IF ~opts.skipSafetyCheck /\ ~isCommandSafe(command)
       THEN /\ exec' = [IdleExec EXCEPT !.state = "settled", !.inv = inv,
                                        !.command = command,
                                        !.completion = Return(BlockedResult(command))]
            /\ events' = Append(log, Event("blocked", inv, command))
       ELSE \E b \in Behaviours :
            /\ exec' = [IdleExec EXCEPT !.state = "running", !.inv = inv,
                                        !.command = command,
                                        !.timeout = EffectiveTimeout(opts),
                                        !.beh = b]
            /\ events' = log
                   \o (IF opts.skipSafetyCheck THEN <<>>
                       ELSE <<Event("allowed", inv, command)>>)
                   \o <<Event("spawn", inv, command)>>
    /\ safeCommands' = safeCommands

\* the shell could not be spawned: exec reports the error
SpawnError ==
    /\ exec.state = "running"
    /\ ~exec.beh.spawnOk
    /\ exec' = [exec EXCEPT !.state = "failed", !.ended = "failed", !.elapsed = 0]
    /\ UNCHANGED <<maxOutputLength, safeCommands, op, commands, options, pc, idx,
                   results, events, ret,
                   arg, context, calls, dispatched, params, sent, formatted>>

\* the child exits by itself before the timeout
ProcessExit ==
    /\ exec.state = "running"
    /\ exec.beh.spawnOk
    /\ exec.beh.dur <= exec.timeout
    /\ exec' = [exec EXCEPT !.state = "exited", !.ended = "exited", !.elapsed = exec.beh.dur]
    /\ UNCHANGED <<maxOutputLength, safeCommands, op, commands, options, pc, idx,
                   results, events, ret,
                   arg, context, calls, dispatched, params, sent, formatted>>

\* the timeout option of exec: the timer fires and the child is killed
TimerExpire ==
    /\ exec.state = "running"
    /\ exec.beh.spawnOk
    /\ exec.beh.dur >= exec.timeout
    /\ exec' = [exec EXCEPT !.state = "killed", !.ended = "killed", !.elapsed = exec.timeout]
    /\ events' = Append(events, Event("kill", exec.inv, exec.command))
    /\ UNCHANGED <<maxOutputLength, safeCommands, op, commands, options, pc, idx,
                   results, ret,
                   arg, context, calls, dispatched, params, sent, formatted>>

\* executeCommand after the await: the success return or the catch block
FinishExecuteCommand(e) ==
    IF e.ended = "exited" /\ e.beh.code = 0
    THEN Return(SuccessResult(e.command, e.beh.stdout, e.beh.stderr, e.elapsed))
    ELSE CatchExecuteCommand(e.command, ExecError(e.command, e.beh, e.ended), e.elapsed)

\* the promise of execAsync settles and executeCommand runs to its return
SettleExecuteCommand ==
    /\ exec.state \in {"exited", "killed", "failed"}
    /\ exec' = [exec EXCEPT !.state = "settled", !.completion = FinishExecuteCommand(exec)]
    /\ UNCHANGED <<maxOutputLength, safeCommands, op, commands, options, pc, idx,
                   results, events, ret,
                   arg, context, calls, dispatched, params, sent, formatted>>

\* a caller invokes executeCommand(command, options)
CallExecuteCommand ==
    /\ pc = "idle"
    /\ \E c \in Commands, o \in OptionSets :
        /\ op' = "executeCommand"
        /\ commands' = <<c>>
        /\ options' = o
        /\ BeginExecuteCommand(c, o, 1, <<>>)
    /\ pc' = "await"
    /\ idx' = 1
    /\ results' = <<>>
    /\ ret' = Return(<<>>)
    /\ calls' = {"executeCommand"}
    /\ UNCHANGED <<maxOutputLength, arg, context, dispatched, params, sent, formatted>>

\* executeCommand returns to that caller
ReturnExecuteCommand ==
    /\ op = "executeCommand"
    /\ pc = "await"
    /\ exec.state = "settled"
    /\ ret' = exec.completion
    /\ pc' = "done"
    /\ exec' = IdleExec
    /\ UNCHANGED <<maxOutputLength, safeCommands, op, commands, options, idx, results,
                   events,
                   arg, context, calls, dispatched, params, sent, formatted>>

---------------------------------------------------------------------------
(* TerminalService: executeCommands. *)

\* the operations whose body is the loop of executeCommands or of
\* executeTerminalCommands
LoopOps ==
    {"executeCommands", "claudeSearch", "provider.claudeSearch",
     "claudeAnalyze", "provider.claudeAnalyze", "generateText"}

\* the test that ends the loop, without the exit code
StopAfterNever(result, opts) == FALSE

\* the test that ends the loop, without the continueOnError option
StopAfterAnyFailure(result, opts) == result.exitCode # JSNum(0)

\* the test that ends the loop, on the error flag in place of the exit code
StopAfterErrorFlag(result, opts) == result.error /\ ~opts.continueOnError

\* if (result.exitCode !== 0 && !options.continueOnError) break
StopAfter(result, opts) ==
    result.exitCode # JSNum(0) /\ ~opts.continueOnError

\* a caller invokes executeCommands(commands, options)
CallExecuteCommands ==
    /\ pc = "idle"
    /\ \E cs \in SeqsUpTo(BatchCommands, MaxBatch), o \in OptionSets :
        /\ commands' = cs
        /\ options' = o
    /\ op' = "executeCommands"
    /\ pc' = "loop"
    /\ idx' = 1
    /\ results' = <<>>
    /\ events' = <<>>
    /\ exec' = IdleExec
    /\ ret' = Return(<<>>)
    /\ calls' = {"executeCommands"}
    /\ UNCHANGED <<maxOutputLength, safeCommands, arg, context, dispatched, params,
                   sent, formatted>>

\* for (const command of commands): the next command is handed to
\* executeCommand, or the loop is over
LoopNext ==
    /\ pc = "loop"
    /\ IF idx <= Len(commands)
       THEN /\ BeginExecuteCommand(commands[idx], options, idx, events)
            /\ calls' = calls \cup {"executeCommand"}
            /\ pc' = "await"
       ELSE /\ pc' = "return"
            /\ UNCHANGED <<safeCommands, exec, events, calls>>
    /\ UNCHANGED <<maxOutputLength, op, commands, options, idx, results, ret,
                   arg, context, dispatched, params, sent, formatted>>

\* what the loop body pushes: the result of executeCommand, and in
\* executeTerminalCommands, whose body is a try block, the object of its catch
\* block when executeCommand threw
LoopResult(name, e) ==
    IF e.completion.kind = "return" THEN e.completion.value
    ELSE [command |-> e.command, stdout |-> <<>>, stderr |-> e.completion.value.message,
          exitCode |-> JSNum(1), duration |-> 0,
          blocked |-> FALSE, truncated |-> FALSE, error |-> TRUE]

\* the break test of executeCommands applied to every loop,
\* executeTerminalCommands included
BreakAfterInEveryLoop(name, result, opts) == StopAfter(result, opts)

\* the break of the loop: executeTerminalCommands has none
BreakAfter(name, result, opts) == name # "generateText" /\ StopAfter(result, opts)

\* the loop body without its await: the loop goes on to the next command
\* while the child of this one is still running
LoopPushWithoutAwait ==
    /\ op \in LoopOps
    /\ pc = "await"
    /\ idx' = idx + 1
    /\ pc' = "loop"
    /\ UNCHANGED <<maxOutputLength, safeCommands, op, commands, options, results, exec,
                   events, ret,
                   arg, context, calls, dispatched, params, sent, formatted>>

\* the await of the loop body resumes: results.push(result) and the break test
LoopPush ==
    /\ op \in LoopOps
    /\ pc = "await"
    /\ exec.state = "settled"
    /\ IF exec.completion.kind = "throw" /\ op # "generateText"
       THEN /\ ret' = exec.completion
            /\ pc' = "done"
            /\ UNCHANGED <<results, idx>>
       ELSE /\ results' = Append(results, LoopResult(op, exec))
            /\ idx' = idx + 1
            /\ pc' = IF BreakAfter(op, results'[idx], options) THEN "return" ELSE "loop"
            /\ UNCHANGED ret
    /\ exec' = IdleExec
    /\ UNCHANGED <<maxOutputLength, safeCommands, op, commands, options, events, arg,
                   context,
                   calls, dispatched, params, sent, formatted>>

\* return results, to the caller of executeCommands
ReturnExecuteCommands ==
    /\ op = "executeCommands"
    /\ pc = "return"
    /\ ret' = Return(results)
    /\ pc' = "done"
    /\ UNCHANGED <<maxOutputLength, safeCommands, op, commands, options, idx, results,
                   exec, events,
                   arg, context, calls, dispatched, params, sent, formatted>>

---------------------------------------------------------------------------
(* TerminalService: executeCommandSync. *)

\* how a spawned child of behaviour b can end under the given timeout
Endings(b, timeout) ==
    IF ~b.spawnOk THEN {"failed"}
    ELSE (IF b.dur <= timeout THEN {"exited"} ELSE {})
            \cup (IF b.dur >= timeout THEN {"killed"} ELSE {})

\* the error execSync throws: status is the exit code of the child, and is
\* missing when the child was not spawned or was killed on timeout
ExecSyncError(command, b, how) ==
    CASE how = "failed" ->
            [message |-> <<"s","p","a","w","n","S","y","n","c"," ","/","b","i","n","/","s","h"," ","E","N","O","E","N","T">>, status |-> JSNull]
      [] how = "killed" ->
            [message |-> <<"s","p","a","w","n","S","y","n","c"," ","/","b","i","n","/","s","h"," ","E","T","I","M","E","D","O","U","T">>, status |-> JSNull]
      [] OTHER ->
            [message |-> <<"C","o","m","m","a","n","d"," ","f","a","i","l","e","d",":"," ">> \o command
                            \o (IF b.stderr # <<>> THEN <<"\n">> \o b.stderr ELSE <<>>),
             status |-> JSNum(b.code)]

\* the try block of executeCommandSync without its safety check
TryExecuteCommandSyncUngated(command, opts, b, how) ==
    IF how = "exited" /\ b.code = 0
    THEN Return([stdout |-> truncateOutput(b.stdout), stderr |-> <<>>,
                 exitCode |-> JSNum(0)])
    ELSE Throw(ExecSyncError(command, b, how))

\* the try block of executeCommandSync
TryExecuteCommandSync(command, opts, b, how) ==
    IF ~opts.skipSafetyCheck /\ ~isCommandSafe(command)
    THEN Throw([message |-> BlockedMessage, status |-> JSNull])
    ELSE IF how = "exited" /\ b.code = 0
         THEN Return([stdout |-> truncateOutput(b.stdout), stderr |-> <<>>,
                      exitCode |-> JSNum(0)])
         ELSE Throw(ExecSyncError(command, b, how))

\* the catch block of executeCommandSync
CatchExecuteCommandSync(error) ==
    Return([stdout |-> <<>>, stderr |-> error.message,
            exitCode |-> OrElse(error.status, JSNum(1))])

\* executeCommandSync(command, options)
executeCommandSync(command, opts, b, how) ==
    LET body == TryExecuteCommandSync(command, opts, b, how)
    IN  IF body.kind = "throw" THEN CatchExecuteCommandSync(body.value) ELSE body

\* what executeCommandSync does besides returning: the classification, the
\* spawn and the kill on timeout
SyncEvents(command, opts, how) ==
    IF ~opts.skipSafetyCheck /\ ~isCommandSafe(command)
    THEN <<Event("blocked", 1, command)>>
    ELSE (IF opts.skipSafetyCheck THEN <<>> ELSE <<Event("allowed", 1, command)>>)
            \o <<Event("spawn", 1, command)>>
            \o (IF how = "killed" THEN <<Event("kill", 1, command)>> ELSE <<>>)

\* the record of the finished invocation: the child it ran, if any, and how
\* that child ended
SyncExec(command, opts, b, how) ==
    IF ~opts.skipSafetyCheck /\ ~isCommandSafe(command)
    THEN [IdleExec EXCEPT !.state = "sync", !.inv = 1, !.command = command]
    ELSE [IdleExec EXCEPT !.state = "sync", !.inv = 1, !.command = command,
                          !.timeout = EffectiveTimeout(opts), !.beh = b, !.ended = how]

\* a caller invokes executeCommandSync(command, options), which blocks until
\* it returns
CallExecuteCommandSync ==
    /\ pc = "idle"
    /\ \E c \in Commands, o \in OptionSets, b \in Behaviours :
        \E how \in Endings(b, EffectiveTimeout(o)) :
            /\ commands' = <<c>>
            /\ options' = o
            /\ ret' = executeCommandSync(c, o, b, how)
            /\ events' = SyncEvents(c, o, how)
            /\ exec' = SyncExec(c, o, b, how)
    /\ op' = "executeCommandSync"
    /\ pc' = "done"
    /\ idx' = 1
    /\ results' = <<>>
    /\ calls' = {"executeCommandSync"}
    /\ UNCHANGED <<maxOutputLength, safeCommands, arg, context, dispatched, params,
                   sent, formatted>>

---------------------------------------------------------------------------
(* claudeSearch, of TerminalService and of ClaudeCodeAIProvider. *)

RECURSIVE SplitOn(_, _)
\* String.prototype.split(sep) for a one-character separator
SplitOn(s, sep) ==
    LET at == {i \in 1..Len(s) : s[i] = sep}
    IN  IF at = {} THEN <<s>>
        ELSE LET i == CHOOSE i \in at : \A j \in at : i <= j
             IN  <<SubSeq(s, 1, i - 1)>> \o SplitOn(SubSeq(s, i + 1, Len(s)), sep)

RECURSIVE JoinWith(_, _)
\* Array.prototype.join(sep)
JoinWith(parts, sep) ==
    IF parts = <<>> THEN <<>>
    ELSE IF Len(parts) = 1 THEN parts[1]
    ELSE parts[1] \o <<sep>> \o JoinWith(Tail(parts), sep)

\* Array.prototype.slice(0, n)
Slice0(a, n) == SubSeq(a, 1, IF n < Len(a) THEN n ELSE Len(a))

\* the three probes of claudeSearch, with context.searchPath || '.'
SearchCommands(query, ctx) ==
    LET path == StrOrElse(ctx.searchPath, <<".">>)
    IN  << <<"g","r","e","p"," ","-","r"," ","\"">> \o query \o <<"\""," ">> \o path,
           <<"f","i","n","d"," ">> \o path \o <<" ","-","n","a","m","e"," ","\"","*">> \o query \o <<"*","\"">>,
           <<"g","i","t"," ","l","o","g"," ","-","-","g","r","e","p","=","\"">> \o query \o <<"\""," ","-","-","o","n","e","l","i","n","e"," ","-","1","0">> >>

\* the match count of one probe, counting blank lines too
CountAllLines(stdout) == Len(SplitOn(stdout, "\n"))

\* r.stdout.split('\n').filter(line => line.trim()).length
CountMatches(stdout) ==
    Len(SelectSeq(SplitOn(stdout, "\n"), LAMBDA line : Trim(line) # <<>>))

\* r.stdout.split('\n').slice(0, 5).join('\n')
Preview(stdout) == JoinWith(Slice0(SplitOn(stdout, "\n"), 5), "\n")

\* the object claudeSearch returns
SearchResult(query, rs) ==
    [command |-> <<"c","l","a","u","d","e","-","s","e","a","r","c","h"," ">> \o query,
     results |-> [k \in 1..Len(rs) |->
                    [command |-> rs[k].command,
                     matches |-> CountMatches(rs[k].stdout),
                     preview |-> Preview(rs[k].stdout)]]]

\* the arguments of the search meta-command
Queries == { <<"a","u","t","h">>, <<"s","u","d","o">>, <<"a"," ","b">>, <<>> }
SearchPaths == { <<>>, <<"s","r","c">> }

\* the options claudeSearch passes to executeCommands; the provider adds a cwd
SearchOptions == [skipSafetyCheck |-> FALSE, continueOnError |-> TRUE, timeout |-> 0]

\* a caller invokes claudeSearch(query, context) of the service or of the provider
CallClaudeSearch ==
    /\ pc = "idle"
    /\ \E q \in Queries, p \in SearchPaths :
        /\ arg' = q
        /\ context' = [searchPath |-> p, skipSafetyCheck |-> FALSE]
        /\ commands' = SearchCommands(q, context')
    /\ op' \in {"claudeSearch", "provider.claudeSearch"}
    /\ options' = SearchOptions
    /\ pc' = "loop"
    /\ idx' = 1
    /\ results' = <<>>
    /\ events' = <<>>
    /\ exec' = IdleExec
    /\ ret' = Return(<<>>)
    /\ calls' = {op', "executeCommands"}
    /\ UNCHANGED <<maxOutputLength, safeCommands, dispatched, params, sent, formatted>>

\* executeCommands has returned to claudeSearch, which returns the synthesis
ReturnClaudeSearch ==
    /\ op \in {"claudeSearch", "provider.claudeSearch"}
    /\ pc = "return"
    /\ ret' = Return(SearchResult(arg, results))
    /\ pc' = "done"
    /\ UNCHANGED <<maxOutputLength, safeCommands, op, commands, options, idx, results,
                   exec, events,
                   arg, context, calls, dispatched, params, sent, formatted>>

---------------------------------------------------------------------------
(* claudeAnalyze and claudeExplain, of TerminalService and of              *)
(* ClaudeCodeAIProvider.                                                   *)

\* the three probes of claudeAnalyze
AnalyzeCommands(target) ==
    << <<"w","c"," ","-","l"," ">> \o target, <<"f","i","l","e"," ">> \o target, <<"h","e","a","d"," ","-","2","0"," ">> \o target >>

\* results[k]?.stdout, undefined when the list has no k-th result
StdoutAt(rs, k) ==
    IF k <= Len(rs) THEN [defined |-> TRUE, s |-> rs[k].stdout]
    ELSE [defined |-> FALSE, s |-> <<>>]

\* results[k]?.stdout?.trim()
TrimmedStdoutAt(rs, k) ==
    IF k <= Len(rs) THEN [defined |-> TRUE, s |-> Trim(rs[k].stdout)]
    ELSE [defined |-> FALSE, s |-> <<>>]

\* the object claudeAnalyze returns
AnalyzeResult(target, rs) ==
    [command |-> <<"c","l","a","u","d","e","-","a","n","a","l","y","z","e"," ">> \o target,
     analysis |-> [lineCount |-> TrimmedStdoutAt(rs, 1),
                   fileType |-> TrimmedStdoutAt(rs, 2),
                   preview |-> StdoutAt(rs, 3)]]

\* executeCommands has returned to claudeAnalyze, which returns the analysis
ReturnClaudeAnalyze ==
    /\ op \in {"claudeAnalyze", "provider.claudeAnalyze"}
    /\ pc = "return"
    /\ ret' = Return(AnalyzeResult(arg, results))
    /\ pc' = "done"
    /\ UNCHANGED <<maxOutputLength, safeCommands, op, commands, options, idx, results,
                   exec, events,
                   arg, context, calls, dispatched, params, sent, formatted>>

\* claudeExplain of TerminalService: the object it returns, without reading
\* anything
ExplainPlaceholder(target) ==
    [command |-> <<"c","l","a","u","d","e","-","e","x","p","l","a","i","n"," ">> \o target,
     explanation |-> <<"T","h","i","s"," ","c","o","m","m","a","n","d"," ","w","o","u","l","d"," ","u","s","e"," ","A","I"," ","t","o"," ","e","x","p","l","a","i","n"," ","t","h","e"," ","s","p","e","c","i","f","i","e","d"," ","c","o","d","e"," ","o","r"," ","f","i","l","e">>]

\* the read of claudeExplain of the provider
ExplainRead(target) == <<"c","a","t"," ">> \o target

\* its options, { cwd: context.projectRoot }
ExplainOptions == [skipSafetyCheck |-> FALSE, continueOnError |-> FALSE, timeout |-> 0]

\* the params claudeExplain hands to this.generateText
ExplainParams(fileContent) ==
    [systemPrompt |-> <<"Y","o","u"," ","a","r","e"," ","a"," ","c","o","d","e"," ","e","x","p","l","a","n","a","t","i","o","n"," ","e","x","p","e","r","t","."," ","E","x","p","l","a","i","n"," ","t","h","e"," ","f","o","l","l","o","w","i","n","g"," ","c","o","d","e"," ","c","l","e","a","r","l","y"," ","a","n","d"," ","c","o","n","c","i","s","e","l","y",".">>,
     prompt |-> <<"E","x","p","l","a","i","n"," ","t","h","i","s"," ","c","o","d","e",":","\n","\n",Backquote,Backquote,Backquote,"\n">> \o fileContent.stdout \o <<"\n",Backquote,Backquote,Backquote>>,
     messages |-> <<>>]

\* the object claudeExplain returns when the read failed
ExplainFailure(target, fileContent) ==
    [command |-> <<"c","l","a","u","d","e","-","e","x","p","l","a","i","n"," ">> \o target,
     error |-> <<"C","o","u","l","d"," ","n","o","t"," ","r","e","a","d"," ","f","i","l","e">>,
     stderr |-> fileContent.stderr]

\* the object claudeExplain returns when the text generation answered
ExplainSuccess(target, text) ==
    [command |-> <<"c","l","a","u","d","e","-","e","x","p","l","a","i","n"," ">> \o target, explanation |-> text]

\* the answers of the text generation (super.generateText), an external service
GeneratedTexts == { <<"o","k">>, <<>> }

\* claudeExplain of the provider after the await of the read: fileContent is
\* kept in results; generateText has no terminalCommands here and hands its
\* params to super.generateText
ExplainAfterRead ==
    /\ op = "provider.claudeExplain"
    /\ pc = "await"
    /\ exec.state = "settled"
    /\ IF exec.completion.kind = "throw"
       THEN /\ ret' = exec.completion
            /\ pc' = "done"
            /\ UNCHANGED <<results, sent, calls>>
       ELSE LET fileContent == exec.completion.value
            IN  /\ results' = <<fileContent>>
                /\ IF fileContent.exitCode = JSNum(0)
                   THEN /\ sent' = Append(sent, ExplainParams(fileContent))
                        /\ calls' = calls \cup {"generateText", "super.generateText"}
                        /\ pc' = "generate"
                        /\ UNCHANGED ret
                   ELSE /\ ret' = Return(ExplainFailure(arg, fileContent))
                        /\ pc' = "done"
                        /\ UNCHANGED <<sent, calls>>
    /\ exec' = IdleExec
    /\ UNCHANGED <<maxOutputLength, safeCommands, op, commands, options, idx, events,
                   arg, context,
                   dispatched, params, formatted>>

\* the text generation answers claudeExplain, or fails
ExplainGenerated ==
    /\ op = "provider.claudeExplain"
    /\ pc = "generate"
    /\ \/ \E text \in GeneratedTexts : ret' = Return(ExplainSuccess(arg, text))
       \/ ret' = Throw([message |-> <<"g","e","n","e","r","a","t","i","o","n"," ","f","a","i","l","e","d">>])
    /\ pc' = "done"
    /\ UNCHANGED <<maxOutputLength, safeCommands, op, commands, options, idx, results,
                   exec, events,
                   arg, context, calls, dispatched, params, sent, formatted>>

---------------------------------------------------------------------------
(* The meta-command dispatchers: executeClaudeCodeCommand of               *)
(* TerminalService and executeClaudeCommand of ClaudeCodeAIProvider.       *)

\* const [cmdName, ...args] = command.split(' '): cmdName
CmdName(command) == SplitOn(command, " ")[1]

\* args.join(' ')
ArgsJoined(command) == JoinWith(Tail(SplitOn(command, " ")), " ")

\* the own properties of the object literal claudeCommands, and the cases of
\* the switch of the provider
ClaudeCommandNames == { <<"c","l","a","u","d","e","-","s","e","a","r","c","h">>, <<"c","l","a","u","d","e","-","a","n","a","l","y","z","e">>, <<"c","l","a","u","d","e","-","e","x","p","l","a","i","n">> }

\* the methods an object literal inherits from Object.prototype
ObjectPrototypeMethods ==
    { <<"c","o","n","s","t","r","u","c","t","o","r">>, <<"t","o","S","t","r","i","n","g">>, <<"t","o","L","o","c","a","l","e","S","t","r","i","n","g">>, <<"v","a","l","u","e","O","f">>,
      <<"h","a","s","O","w","n","P","r","o","p","e","r","t","y">>, <<"i","s","P","r","o","t","o","t","y","p","e","O","f">>, <<"p","r","o","p","e","r","t","y","I","s","E","n","u","m","e","r","a","b","l","e">> }

\* the accessor it inherits, whose value is Object.prototype itself
ProtoAccessor == <<"_","_","p","r","o","t","o","_","_">>

\* claudeCommands[cmdName]: an own property, an inherited one, or undefined
ClaudeCommandsLookup(cmdName) ==
    IF cmdName \in ClaudeCommandNames THEN "handler"
    ELSE IF cmdName \in ObjectPrototypeMethods THEN "inherited method"
    ELSE IF cmdName = ProtoAccessor THEN "inherited object"
    ELSE "undefined"

\* what the inherited method returns when called on claudeCommands with
\* (args.join(' '), context): a String object, a string, the object itself
\* or a boolean
InheritedCall(cmdName, text) ==
    CASE cmdName = <<"c","o","n","s","t","r","u","c","t","o","r">> ->
            [t |-> "String object", text |-> text, flag |-> FALSE]
      [] cmdName \in { <<"t","o","S","t","r","i","n","g">>, <<"t","o","L","o","c","a","l","e","S","t","r","i","n","g">> } ->
            [t |-> "string", text |-> <<"[","o","b","j","e","c","t"," ","O","b","j","e","c","t","]">>, flag |-> FALSE]
      [] cmdName = <<"v","a","l","u","e","O","f">> ->
            [t |-> "claudeCommands", text |-> <<>>, flag |-> FALSE]
      [] cmdName \in { <<"h","a","s","O","w","n","P","r","o","p","e","r","t","y">>, <<"p","r","o","p","e","r","t","y","I","s","E","n","u","m","e","r","a","b","l","e">> } ->
            [t |-> "boolean", text |-> <<>>, flag |-> text \in ClaudeCommandNames]
      [] OTHER -> [t |-> "boolean", text |-> <<>>, flag |-> FALSE]

\* the error of calling a value that is not a function
NotAFunction ==
    [message |-> <<"c","l","a","u","d","e","C","o","m","m","a","n","d","s","[","c","m","d","N","a","m","e","]"," ","i","s"," ","n","o","t"," ","a"," ","f","u","n","c","t","i","o","n">>, name |-> "TypeError"]

\* the command texts handed to the dispatchers
DispatchCommands ==
    { <<"c","l","a","u","d","e","-","s","e","a","r","c","h"," ","a","u","t","h">>, <<"c","l","a","u","d","e","-","a","n","a","l","y","z","e"," ","a",".","j","s">>, <<"c","l","a","u","d","e","-","e","x","p","l","a","i","n"," ","a",".","j","s">>,
      <<"c","l","a","u","d","e","-","e","x","p","l","a","i","n"," ","a"," ","|"," ","s","u","d","o"," ","b">>, <<"c","l","a","u","d","e","-","e","x","p","l","a","i","n">>,
      <<"l","s">>, <<"g","i","t"," ","s","t","a","t","u","s">>, <<"r","m"," ","-","r","f"," ","/">>, <<"e","c","h","o"," ","c","l","a","u","d","e","-","s","e","a","r","c","h"," ","x">>,
      <<" ","c","l","a","u","d","e","-","s","e","a","r","c","h"," ","x">>, <<"c","l","a","u","d","e","-","s","e","a","r","c","h","x"," ","y">>, <<"C","l","a","u","d","e","-","S","e","a","r","c","h"," ","x">>,
      <<"c","o","n","s","t","r","u","c","t","o","r"," ","x">>, <<"t","o","S","t","r","i","n","g">>, <<"h","a","s","O","w","n","P","r","o","p","e","r","t","y"," ","c","l","a","u","d","e","-","s","e","a","r","c","h">>,
      <<"_","_","p","r","o","t","o","_","_"," ","x">> }

\* the context objects handed to the dispatchers
Contexts == [searchPath : SearchPaths, skipSafetyCheck : BOOLEAN]

\* the options of claudeAnalyze; the provider adds a cwd
AnalyzeOptions == [skipSafetyCheck |-> FALSE, continueOnError |-> TRUE, timeout |-> 0]

\* { ...context, skipSafetyCheck: false }
ForcedSafetyOptions(ctx) ==
    [skipSafetyCheck |-> FALSE, continueOnError |-> FALSE, timeout |-> 0]

\* the context object itself, taken as the options of executeCommand
ContextAsOptions(ctx) ==
    [skipSafetyCheck |-> ctx.skipSafetyCheck, continueOnError |-> FALSE, timeout |-> 0]

\* a meta-command enters the loop of executeCommands
EnterLoop(name, cs, opts) ==
    /\ op' = name
    /\ commands' = cs
    /\ options' = opts
    /\ pc' = "loop"
    /\ exec' = IdleExec
    /\ events' = <<>>
    /\ ret' = Return(<<>>)
    /\ UNCHANGED safeCommands

\* executeCommand is entered on behalf of the operation name
EnterExecuteCommand(name, c, opts) ==
    /\ op' = name
    /\ commands' = <<c>>
    /\ options' = opts
    /\ BeginExecuteCommand(c, opts, 1, <<>>)
    /\ pc' = "await"
    /\ ret' = Return(<<>>)

\* the operation name completes without executing anything
EnterDone(name, completion) ==
    /\ op' = name
    /\ ret' = completion
    /\ pc' = "done"
    /\ UNCHANGED <<safeCommands, commands, options, exec, events>>

\* a caller invokes executeClaudeCodeCommand(command, context) of the service
CallExecuteClaudeCodeCommand ==
    /\ pc = "idle"
    /\ \E c \in DispatchCommands, ctx \in Contexts :
        LET cmdName == CmdName(c)
            text == ArgsJoined(c)
            found == ClaudeCommandsLookup(cmdName)
        IN  /\ dispatched' = c
            /\ context' = ctx
            /\ arg' = text
            /\ CASE found = "handler" /\ cmdName = <<"c","l","a","u","d","e","-","s","e","a","r","c","h">> ->
                        /\ EnterLoop("claudeSearch", SearchCommands(text, ctx), SearchOptions)
                        /\ calls' = {"executeClaudeCodeCommand", "claudeSearch",
                                     "executeCommands"}
                 [] found = "handler" /\ cmdName = <<"c","l","a","u","d","e","-","a","n","a","l","y","z","e">> ->
                        /\ EnterLoop("claudeAnalyze", AnalyzeCommands(text), AnalyzeOptions)
                        /\ calls' = {"executeClaudeCodeCommand", "claudeAnalyze",
                                     "executeCommands"}
                 [] found = "handler" /\ cmdName = <<"c","l","a","u","d","e","-","e","x","p","l","a","i","n">> ->
                        /\ EnterDone("claudeExplain", Return(ExplainPlaceholder(text)))
                        /\ calls' = {"executeClaudeCodeCommand", "claudeExplain"}
                 [] found = "inherited method" ->
                        /\ EnterDone("executeClaudeCodeCommand",
                                     Return(InheritedCall(cmdName, text)))
                        /\ calls' = {"executeClaudeCodeCommand", "Object.prototype"}
                 [] found = "inherited object" ->
                        /\ EnterDone("executeClaudeCodeCommand", Throw(NotAFunction))
                        /\ calls' = {"executeClaudeCodeCommand"}
                 [] OTHER ->
                        /\ EnterExecuteCommand("executeCommand", c,
                                               ForcedSafetyOptions(ctx))
                        /\ calls' = {"executeClaudeCodeCommand", "executeCommand"}
    /\ idx' = 1
    /\ results' = <<>>
    /\ UNCHANGED <<maxOutputLength, params, sent, formatted>>

\* a caller invokes executeClaudeCommand(command, context) of the provider
CallExecuteClaudeCommand ==
    /\ pc = "idle"
    /\ \E c \in DispatchCommands, ctx \in Contexts :
        LET cmdName == CmdName(c)
            text == ArgsJoined(c)
        IN  /\ dispatched' = c
            /\ context' = ctx
            /\ arg' = text
            /\ CASE cmdName = <<"c","l","a","u","d","e","-","s","e","a","r","c","h">> ->
                        /\ EnterLoop("provider.claudeSearch", SearchCommands(text, ctx),
                                     SearchOptions)
                        /\ calls' = {"executeClaudeCommand", "provider.claudeSearch",
                                     "executeCommands"}
                 [] cmdName = <<"c","l","a","u","d","e","-","a","n","a","l","y","z","e">> ->
                        /\ EnterLoop("provider.claudeAnalyze", AnalyzeCommands(text),
                                     AnalyzeOptions)
                        /\ calls' = {"executeClaudeCommand", "provider.claudeAnalyze",
                                     "executeCommands"}
                 [] cmdName = <<"c","l","a","u","d","e","-","e","x","p","l","a","i","n">> ->
                        /\ EnterExecuteCommand("provider.claudeExplain", ExplainRead(text),
                                               ExplainOptions)
                        /\ calls' = {"executeClaudeCommand", "provider.claudeExplain",
                                     "executeCommand"}
                 [] OTHER ->
                        /\ EnterExecuteCommand("executeCommand", c, ContextAsOptions(ctx))
                        /\ calls' = {"executeClaudeCommand", "executeCommand"}
    /\ idx' = 1
    /\ results' = <<>>
    /\ UNCHANGED <<maxOutputLength, params, sent, formatted>>

---------------------------------------------------------------------------
(* ClaudeCodeAIProvider: formatTerminalResults, executeTerminalCommands    *)
(* and generateText.                                                       *)

DigitChars == <<"0","1","2","3","4","5","6","7","8","9">>

RECURSIVE Digits(_)
\* a non-negative number in a template literal
Digits(n) ==
    IF n < 10 THEN <<DigitChars[n + 1]>>
    ELSE Digits(n \div 10) \o <<DigitChars[(n % 10) + 1]>>

\* `${value}` for an exit code: a number, or the code of a spawn error
ToText(v) ==
    CASE v.t = "number" -> Digits(v.n)
      [] v.t = "string" /\ v.s = "ENOENT" -> <<"E","N","O","E","N","T">>
      [] OTHER -> <<"n","u","l","l">>

\* the text of one result with the error block of every non-empty stderr
FormatTerminalResultAnyStderr(result, index) ==
    <<"#","#","#"," ","C","o","m","m","a","n","d"," ">> \o Digits(index + 1) \o <<":"," ",Backquote>> \o result.command \o <<Backquote,"\n">>
    \o (IF result.blocked
        THEN <<"*","*","S","t","a","t","u","s",":","*","*"," ","B","l","o","c","k","e","d"," ","f","o","r"," ","s","a","f","e","t","y","\n">>
                \o <<"*","*","R","e","a","s","o","n",":","*","*"," ">> \o result.stderr \o <<"\n">>
        ELSE <<"*","*","E","x","i","t"," ","C","o","d","e",":","*","*"," ">> \o ToText(result.exitCode) \o <<"\n">>
                \o (IF result.stdout # <<>>
                    THEN <<"*","*","O","u","t","p","u","t",":","*","*","\n",Backquote,Backquote,Backquote,"\n">> \o result.stdout \o <<"\n",Backquote,Backquote,Backquote,"\n">>
                    ELSE <<>>)
                \o (IF result.stderr # <<>>
                    THEN <<"*","*","E","r","r","o","r",":","*","*","\n",Backquote,Backquote,Backquote,"\n">> \o result.stderr \o <<"\n",Backquote,Backquote,Backquote,"\n">>
                    ELSE <<>>))
    \o (IF result.truncated THEN <<"*","N","o","t","e",":"," ","O","u","t","p","u","t"," ","w","a","s"," ","t","r","u","n","c","a","t","e","d","*","\n">> ELSE <<>>)

\* the text of one result in formatTerminalResults, index counted from 0
FormatTerminalResult(result, index) ==
    <<"#","#","#"," ","C","o","m","m","a","n","d"," ">> \o Digits(index + 1) \o <<":"," ",Backquote>> \o result.command \o <<Backquote,"\n">>
    \o (IF result.blocked
        THEN <<"*","*","S","t","a","t","u","s",":","*","*"," ","B","l","o","c","k","e","d"," ","f","o","r"," ","s","a","f","e","t","y","\n">>
                \o <<"*","*","R","e","a","s","o","n",":","*","*"," ">> \o result.stderr \o <<"\n">>
        ELSE <<"*","*","E","x","i","t"," ","C","o","d","e",":","*","*"," ">> \o ToText(result.exitCode) \o <<"\n">>
                \o (IF result.stdout # <<>>
                    THEN <<"*","*","O","u","t","p","u","t",":","*","*","\n",Backquote,Backquote,Backquote,"\n">> \o result.stdout \o <<"\n",Backquote,Backquote,Backquote,"\n">>
                    ELSE <<>>)
                \o (IF result.stderr # <<>> /\ result.exitCode # JSNum(0)
                    THEN <<"*","*","E","r","r","o","r",":","*","*","\n",Backquote,Backquote,Backquote,"\n">> \o result.stderr \o <<"\n",Backquote,Backquote,Backquote,"\n">>
                    ELSE <<>>))
    \o (IF result.truncated THEN <<"*","N","o","t","e",":"," ","O","u","t","p","u","t"," ","w","a","s"," ","t","r","u","n","c","a","t","e","d","*","\n">> ELSE <<>>)

\* formatTerminalResults(results)
formatTerminalResults(rs) ==
    JoinWith([k \in 1..Len(rs) |-> FormatTerminalResult(rs[k], k - 1)], "\n")

\* the options executeTerminalCommands passes: { cwd: projectRoot, timeout: 30000 }
TerminalCommandOptions ==
    [skipSafetyCheck |-> FALSE, continueOnError |-> FALSE, timeout |-> 30000]

\* messages.find(m => m.role === role): the position of the first one, or 0
FindRole(msgs, role) ==
    LET at == {k \in 1..Len(msgs) : msgs[k].role = role}
    IN  IF at = {} THEN 0 ELSE CHOOSE k \in at : \A j \in at : k <= j

\* terminalCommands.map(cmd => `- ${cmd}`).join('\n')
CommandList(cmds) ==
    JoinWith([k \in 1..Len(cmds) |-> <<"-"," ">> \o cmds[k]], "\n")

\* the messages of the branch that does not execute: the command list goes
\* into the messages of role user
WithCommandList(msgs, cmds) ==
    LET u == FindRole(msgs, "user")
        enhancedUserContent ==
            msgs[u].content
            \o <<"\n","\n","#","#"," ","A","v","a","i","l","a","b","l","e"," ","T","e","r","m","i","n","a","l"," ","C","o","m","m","a","n","d","s","\n","\n","C","o","n","s","i","d","e","r"," ","t","h","e"," ","o","u","t","p","u","t"," ","o","f"," ","t","h","e","s","e"," ","t","e","r","m","i","n","a","l"," ","c","o","m","m","a","n","d","s"," ","w","h","e","n"," ","f","o","r","m","u","l","a","t","i","n","g"," ","y","o","u","r"," ","r","e","s","p","o","n","s","e",":","\n">>
            \o CommandList(cmds)
    IN  IF u = 0 THEN msgs
        ELSE [k \in 1..Len(msgs) |->
                IF msgs[k].role = "user"
                THEN [msgs[k] EXCEPT !.content = enhancedUserContent]
                ELSE msgs[k]]

\* the messages of the branch that executes: the formatted results go into
\* the messages of role system
WithTerminalContext(msgs, terminalContext) ==
    LET s == FindRole(msgs, "system")
        enhancedSystemContent ==
            msgs[s].content
            \o <<"\n","\n","#","#"," ","T","e","r","m","i","n","a","l"," ","C","o","n","t","e","x","t","\n","\n","T","h","e"," ","f","o","l","l","o","w","i","n","g"," ","t","e","r","m","i","n","a","l"," ","c","o","m","m","a","n","d","s"," ","w","e","r","e"," ","e","x","e","c","u","t","e","d"," ","t","o"," ","p","r","o","v","i","d","e"," ","r","e","a","l","-","t","i","m","e"," ","c","o","n","t","e","x","t",":","\n","\n">>
            \o terminalContext
    IN  IF s = 0 THEN msgs
        ELSE [k \in 1..Len(msgs) |->
                IF msgs[k].role = "system"
                THEN [msgs[k] EXCEPT !.content = enhancedSystemContent]
                ELSE msgs[k]]

\* the params generateText hands to super.generateText
SuperParams(msgs) == [systemPrompt |-> <<>>, prompt |-> <<>>, messages |-> msgs]

Message(role, content) == [role |-> role, content |-> content]

\* the message lists handed to generateText
MessageLists ==
    { << Message("system", <<"S">>), Message("user", <<"Q">>) >>,
      << Message("user", <<"Q","1">>), Message("assistant", <<"A">>), Message("user", <<"Q","2">>) >>,
      << Message("system", <<"S">>) >>,
      << Message("system", <<"S","1">>), Message("user", <<"Q">>), Message("system", <<"S","2">>) >> }

\* a caller invokes generateText(params) of the provider
CallGenerateText ==
    /\ pc = "idle"
    /\ \E msgs \in MessageLists, cmds \in SeqsUpTo(BatchCommands, MaxBatch),
          has \in BOOLEAN, ebr \in BOOLEAN :
        /\ params' = [messages |-> msgs,
                      terminalCommands |-> IF has THEN cmds ELSE <<>>,
                      hasTerminalCommands |-> has,
                      executeBeforeResearch |-> ebr]
        /\ commands' = params'.terminalCommands
        /\ IF ~has \/ cmds = <<>>
           THEN /\ sent' = <<SuperParams(msgs)>>
                /\ calls' = {"generateText", "super.generateText"}
                /\ pc' = "generate"
                /\ UNCHANGED options
           ELSE IF ebr
           THEN /\ calls' = {"generateText", "executeTerminalCommands"}
                /\ options' = TerminalCommandOptions
                /\ pc' = "loop"
                /\ UNCHANGED sent
           ELSE /\ sent' = <<SuperParams(WithCommandList(msgs, cmds))>>
                /\ calls' = {"generateText", "super.generateText"}
                /\ pc' = "generate"
                /\ UNCHANGED options
    /\ op' = "generateText"
    /\ idx' = 1
    /\ results' = <<>>
    /\ events' = <<>>
    /\ exec' = IdleExec
    /\ ret' = Return(<<>>)
    /\ UNCHANGED <<maxOutputLength, safeCommands, arg, context, dispatched, formatted>>

\* executeTerminalCommands has returned: the results are formatted, put
\* into the system messages and handed to super.generateText
GenerateWithTerminalContext ==
    /\ op = "generateText"
    /\ pc = "return"
    /\ formatted' = formatTerminalResults(results)
    /\ sent' = <<SuperParams(WithTerminalContext(params.messages, formatted'))>>
    /\ calls' = calls \cup {"formatTerminalResults", "super.generateText"}
    /\ pc' = "generate"
    /\ UNCHANGED <<maxOutputLength, safeCommands, op, commands, options, idx, results,
                   exec, events,
                   ret, arg, context, dispatched, params>>

\* super.generateText answers, or fails, and generateText returns that
GenerateTextReturns ==
    /\ op = "generateText"
    /\ pc = "generate"
    /\ \/ \E text \in GeneratedTexts : ret' = Return([text |-> text])
       \/ ret' = Throw([message |-> <<"g","e","n","e","r","a","t","i","o","n"," ","f","a","i","l","e","d">>])
    /\ pc' = "done"
    /\ UNCHANGED <<maxOutputLength, safeCommands, op, commands, options, idx, results,
                   exec, events,
                   arg, context, calls, dispatched, params, sent, formatted>>

---------------------------------------------------------------------------
(* TerminalService: formatResult. *)

\* the escape sequence that selects a colour, one token of the text
Sgr(n) == << "ESC[" \o n \o "m" >>

\* chalk.<colour>(text): the text between the escape sequences of the colour
\* when the terminal supports colours, the text itself when it does not
Chalk(colour, text, colours) ==
    IF ~colours THEN text
    ELSE Sgr(CASE colour = "green" -> "32"
               [] colour = "red" -> "31"
               [] colour = "yellow" -> "33"
               [] colour = "cyan" -> "36"
               [] OTHER -> "90")
         \o text \o Sgr("39")

\* `${result.duration}`: the blocked result has no duration
DurationText(result) ==
    IF result.blocked THEN <<"u","n","d","e","f","i","n","e","d">> ELSE Digits(result.duration)

\* formatResult(result)
formatResult(result, colours) ==
    LET status == IF result.exitCode = JSNum(0)
                  THEN Chalk("green", <<CheckMark>>, colours)
                  ELSE Chalk("red", <<BallotX>>, colours)
        duration == Chalk("gray", <<"(">> \o DurationText(result) \o <<"m","s",")">>, colours)
    IN  status \o <<" ">> \o Chalk("cyan", result.command, colours) \o <<" ">> \o duration
            \o <<"\n">>
        \o (IF result.stdout # <<>>
            THEN Chalk("gray", <<"O","u","t","p","u","t",":","\n">>, colours) \o result.stdout \o <<"\n">>
            ELSE <<>>)
        \o (IF result.stderr # <<>>
            THEN Chalk("red", <<"E","r","r","o","r",":","\n">>, colours) \o result.stderr \o <<"\n">>
            ELSE <<>>)
        \o (IF result.truncated
            THEN Chalk("yellow", <<"(","O","u","t","p","u","t"," ","w","a","s"," ","t","r","u","n","c","a","t","e","d",")","\n">>, colours)
            ELSE <<>>)

\* the caller of executeCommand hands the result to formatResult
CallFormatResult ==
    /\ op = "executeCommand"
    /\ pc = "done"
    /\ ret.kind = "return"
    /\ \E colours \in BOOLEAN : formatted' = formatResult(ret.value, colours)
    /\ calls' = calls \cup {"formatResult"}
    /\ pc' = "formatted"
    /\ UNCHANGED <<maxOutputLength, safeCommands, op, commands, options, idx, results,
                   exec, events,
                   ret, arg, context, dispatched, params, sent>>

---------------------------------------------------------------------------
(* TerminalService: isCommandAvailable. *)

\* the options of the probe, with the safety check left on
WhichOptionsChecked ==
    [skipSafetyCheck |-> FALSE, continueOnError |-> FALSE, timeout |-> 0]

\* { skipSafetyCheck: true }
WhichOptions == [skipSafetyCheck |-> TRUE, continueOnError |-> FALSE, timeout |-> 0]

\* `which ${command}`
WhichCommand(name) == <<"w","h","i","c","h"," ">> \o name

\* the names handed to isCommandAvailable
ProbeNames == { <<"g","i","t">>, <<"n","o","s","u","c","h","t","o","o","l">>, <<"x",";"," ","s","u","d","o"," ","y">>, <<>> }

\* a caller invokes isCommandAvailable(command)
CallIsCommandAvailable ==
    /\ pc = "idle"
    /\ \E name \in ProbeNames :
        /\ arg' = name
        /\ commands' = <<WhichCommand(name)>>
        /\ BeginExecuteCommand(WhichCommand(name), WhichOptions, 1, <<>>)
    /\ op' = "isCommandAvailable"
    /\ options' = WhichOptions
    /\ calls' = {"isCommandAvailable", "executeCommand"}
    /\ pc' = "await"
    /\ idx' = 1
    /\ results' = <<>>
    /\ ret' = Return(<<>>)
    /\ UNCHANGED <<maxOutputLength, context, dispatched, params, sent, formatted>>

\* the await of isCommandAvailable resumes: return result.exitCode === 0;
\* the result is kept in results
ReturnIsCommandAvailable ==
    /\ op = "isCommandAvailable"
    /\ pc = "await"
    /\ exec.state = "settled"
    /\ IF exec.completion.kind = "throw"
       THEN /\ ret' = exec.completion
            /\ UNCHANGED results
       ELSE /\ ret' = Return(JSBool(exec.completion.value.exitCode = JSNum(0)))
            /\ results' = <<exec.completion.value>>
    /\ pc' = "done"
    /\ exec' = IdleExec
    /\ UNCHANGED <<maxOutputLength, safeCommands, op, commands, options, idx, events,
                   arg, context,
                   calls, dispatched, params, sent, formatted>>

---------------------------------------------------------------------------
(* The specification. *)

Init ==
    /\ maxOutputLength \in Budgets
    /\ safeCommands = ConstructedSafeCommands
    /\ op = "none"
    /\ commands = <<>>
    /\ options = [skipSafetyCheck |-> FALSE, continueOnError |-> FALSE, timeout |-> 0]
    /\ pc = "idle"
    /\ idx = 1
    /\ results = <<>>
    /\ exec = IdleExec
    /\ events = <<>>
    /\ ret = Return(<<>>)
    /\ arg = <<>>
    /\ context = [searchPath |-> <<>>, skipSafetyCheck |-> FALSE]
    /\ calls = {}
    /\ dispatched = <<>>
    /\ params = [messages |-> <<>>, terminalCommands |-> <<>>,
                 hasTerminalCommands |-> FALSE, executeBeforeResearch |-> FALSE]
    /\ sent = <<>>
    /\ formatted = <<>>

Next ==
    \/ CallExecuteCommand
    \/ SpawnError
    \/ ProcessExit
    \/ TimerExpire
    \/ SettleExecuteCommand
    \/ ReturnExecuteCommand
    \/ CallExecuteCommands
    \/ LoopNext
    \/ LoopPush
    \/ ReturnExecuteCommands
    \/ CallExecuteCommandSync
    \/ CallClaudeSearch
    \/ ReturnClaudeSearch
    \/ ReturnClaudeAnalyze
    \/ ExplainAfterRead
    \/ ExplainGenerated
    \/ CallExecuteClaudeCodeCommand
    \/ CallExecuteClaudeCommand
    \/ CallGenerateText
    \/ GenerateWithTerminalContext
    \/ GenerateTextReturns
    \/ CallFormatResult
    \/ CallIsCommandAvailable
    \/ ReturnIsCommandAvailable

Spec == Init /\ [][Next]_vars

---------------------------------------------------------------------------
(* Properties. *)

\* the ExecutionResults of executeCommand that the state holds, each with the
\* number of the invocation that produced it
Produced ==
    {<<k, results[k]>> : k \in 1..Len(results)}
        \cup (IF exec.state = "settled" /\ exec.completion.kind = "return"
              THEN {<<exec.inv, exec.completion.value>>} ELSE {})
        \cup (IF op = "executeCommand" /\ pc = "done" /\ ret.kind = "return"
              THEN {<<1, ret.value>>} ELSE {})
        \cup (IF op = "executeCommands" /\ pc = "done" /\ ret.kind = "return"
              THEN {<<k, ret.value[k]>> : k \in 1..Len(ret.value)} ELSE {})

EventsOf(kinds) == {k \in 1..Len(events) : events[k].ev \in kinds}

\* the deny patterns the documentation lists
MatchesListedDenyPattern(c) ==
    PatRmRf(c) \/ PatSudo(c) \/ PatChmod777(c) \/ PatCurlSh(c) \/ PatWgetSh(c)

\* C1: a command that matches a deny pattern (rm -rf, sudo, chmod 777,
\* curl ... | sh, wget ... | sh) is never classified Allowed, also when it is on
\* the allow-list, and without skipSafetyCheck no process is spawned for it:
\* the invocation ends in the blocked result.
DenyPrecedence ==
    LET denied == {i \in 1..Len(commands) : MatchesListedDenyPattern(commands[i])}
    IN  /\ \A k \in 1..Len(events) : events[k].cmd = commands[events[k].inv]
        /\ \A k \in EventsOf({"allowed"}) : events[k].inv \notin denied
        /\ ~options.skipSafetyCheck =>
              \A k \in EventsOf({"spawn"}) : events[k].inv \notin denied
        /\ \A k \in EventsOf({"blocked"}) :
              \A j \in EventsOf({"spawn", "allowed"}) : events[j].inv # events[k].inv
        /\ (op \in {"executeCommand", "executeCommandSync"} /\ ~options.skipSafetyCheck
                /\ 1 \in denied)
              => /\ events = <<Event("blocked", 1, commands[1])>>
                 /\ (op = "executeCommand" /\ pc = "done") => ret.value.blocked

\* an allow-listed command with a deny pattern in it has been blocked
DenyPrecedenceWitness ==
    /\ op = "executeCommand"
    /\ pc = "done"
    /\ commands[1] = <<"l","s"," ","|"," ","s","u","d","o"," ","x">>
    /\ StartsWithSafeCommand(commands[1])
    /\ ret.value.blocked
    /\ EventsOf({"spawn"}) = {}

\* C2: a result with blocked = true has a nonzero exit code, and the invocation
\* that produced it spawned no process.
BlockedNeverSpawned ==
    \A p \in Produced :
        p[2].blocked =>
            /\ p[2].exitCode # JSNum(0)
            /\ \A k \in EventsOf({"spawn", "kill"}) : events[k].inv # p[1]

\* a batch holds a blocked result after a command that was spawned
BlockedNeverSpawnedWitness ==
    /\ op = "executeCommands"
    /\ pc = "done"
    /\ Len(ret.value) = 2
    /\ ~ret.value[1].blocked
    /\ ret.value[2].blocked
    /\ EventsOf({"spawn"}) # {}

\* neither the leading token nor a string prefix of c is on the allow-list
NotAllowListed(c) ==
    /\ FirstToken(Trim(c)) \notin safeCommands
    /\ ~\E safe \in safeCommands : StartsWith(c, safe)

\* the commands of the state that C3 is about, by invocation
NotListedResults ==
    {p \in Produced :
        /\ ~options.skipSafetyCheck
        /\ ~MatchesDangerousPattern(p[2].command)
        /\ NotAllowListed(p[2].command)}

Failing(rs) == {k \in 1..Len(rs) : rs[k].exitCode # JSNum(0)}

\* C4: without continueOnError, executeCommands returns the results up to and
\* including the first one with a nonzero exit code, and no command after it is
\* classified or spawned; when none fails, there is a result per command.
StopAtFirstFailure ==
    (op = "executeCommands" /\ ~options.continueOnError) =>
        /\ \A k \in Failing(results) : k = Len(results)
        /\ \A k \in Failing(results) : \A j \in 1..Len(events) : events[j].inv <= k
        /\ pc = "done" =>
             /\ ret = Return(results)
             /\ IF Failing(results) = {}
                THEN Len(results) = Len(commands)
                ELSE \E i \in 1..Len(commands) :
                        /\ Len(results) = i
                        /\ results[i].exitCode # JSNum(0)
                        /\ \A j \in 1..(i - 1) : results[j].exitCode = JSNum(0)

\* a batch has stopped at its first command, leaving the second untried
StopAtFirstFailureWitness ==
    /\ op = "executeCommands"
    /\ ~options.continueOnError
    /\ pc = "done"
    /\ Len(commands) = 2
    /\ Len(ret.value) = 1
    /\ ret.value[1].exitCode # JSNum(0)

\* the classifications and, under skipSafetyCheck, the spawns: one per
\* invocation of executeCommand
Attempts ==
    SelectSeq(events, LAMBDA e :
        e.ev \in (IF options.skipSafetyCheck THEN {"spawn"} ELSE {"allowed", "blocked"}))

\* C5: with continueOnError, executeCommands returns a list as long as its
\* input, and the result at position i is that of the command at position i.
ContinueKeepsLength ==
    (op = "executeCommands" /\ options.continueOnError /\ pc = "done") =>
        /\ ret.kind = "return"
        /\ Len(ret.value) = Len(commands)
        /\ Len(Attempts) = Len(commands)
        /\ \A i \in 1..Len(commands) :
            /\ ret.value[i].command = commands[i]
            /\ Attempts[i] \in {Event(kind, i, commands[i]) :
                                  kind \in {"allowed", "blocked", "spawn"}}
            /\ ret.value[i].blocked <=> Attempts[i].ev = "blocked"

\* a batch has gone on after a failing first command
ContinueKeepsLengthWitness ==
    /\ op = "executeCommands"
    /\ options.continueOnError
    /\ pc = "done"
    /\ Len(commands) = 2
    /\ ret.value[1].exitCode # JSNum(0)
    /\ ret.value[2].exitCode = JSNum(0)

\* the longest stream a result may carry
StreamLimit == maxOutputLength + Len(TruncationMarker)

\* C6: in every result of executeCommand and of executeCommandSync, stdout and
\* stderr are no longer than the budget plus the truncation marker.
StreamsWithinLimit ==
    /\ \A p \in Produced :
          Len(p[2].stdout) <= StreamLimit /\ Len(p[2].stderr) <= StreamLimit
    /\ (op = "executeCommandSync" /\ pc = "done" /\ ret.kind = "return") =>
          Len(ret.value.stdout) <= StreamLimit /\ Len(ret.value.stderr) <= StreamLimit

\* C7: the truncated flag of a result of executeCommand is set exactly when
\* the raw stdout or stderr of the child exceeded the budget.
TruncatedIffOverBudget ==
    (exec.state = "settled" /\ exec.completion.kind = "return") =>
        (exec.completion.value.truncated
            <=> \/ Len(exec.beh.stdout) > maxOutputLength
                \/ Len(exec.beh.stderr) > maxOutputLength)

\* what holds of a child that was still running when its timeout expired
TimeoutResult ==
    /\ (exec.state \in {"killed", "settled"} /\ exec.ended = "killed") =>
          /\ exec.beh.dur >= exec.timeout
          /\ \E k \in EventsOf({"kill"}) : events[k] = Event("kill", exec.inv, exec.command)
    /\ (exec.state = "settled" /\ exec.ended = "killed") =>
          /\ exec.completion.kind = "return"
          /\ exec.completion.value.exitCode # JSNum(0)
          /\ exec.completion.value.error
          /\ exec.completion.value.duration <= exec.timeout
    /\ (exec.state = "settled" /\ exec.beh.spawnOk /\ exec.beh.dur > exec.timeout) =>
          exec.ended = "killed"
    /\ exec.state = "running" =>
          exec.timeout = (IF options.timeout # 0 THEN options.timeout ELSE 30000)

\* C8: a child still running when the timeout (options.timeout, else 30000 ms)
\* expires is killed, and the result has a nonzero exit code and error = true;
\* the result is the step that follows the expiry, and is eventually returned.
TimeoutKillsAndReports ==
    /\ []TimeoutResult
    /\ [][exec.state = "killed" =>
            (exec'.state = "settled" /\ exec'.completion.value.error)]_vars
    /\ (exec.state = "killed") ~> (exec.state = "settled")

\* a command with a 50 ms timeout that would run 60 s has been reported
TimeoutWitness ==
    /\ exec.state = "settled"
    /\ exec.ended = "killed"
    /\ exec.timeout = 50
    /\ exec.beh.dur = 60000
    /\ exec.completion.value.exitCode = JSNum(1)

\* C9: executeCommand and executeCommandSync never throw: blocked commands,
\* spawn failures, timeouts and nonzero exits all end in a returned result with
\* a nonzero exit code, and executeCommands returns one result per command it
\* attempted.
FailuresAreResults ==
    /\ exec.state = "settled" =>
          /\ exec.completion.kind = "return"
          /\ (exec.ended # "exited" \/ exec.beh.code # 0) =>
                exec.completion.value.exitCode # JSNum(0)
    /\ (pc = "done" /\ op \in {"executeCommand", "executeCommandSync", "executeCommands"})
            => ret.kind = "return"
    /\ (op = "executeCommandSync" /\ pc = "done") =>
          ((exec.ended # "exited" \/ exec.beh.code # 0) => ret.value.exitCode # JSNum(0))
    /\ pc = "return" =>
          /\ Len(results) = Len(Attempts)
          /\ \A i \in 1..Len(results) : Attempts[i].inv = i

\* the blocking variant has turned a spawn failure into a result
FailuresAreResultsWitness ==
    /\ op = "executeCommandSync"
    /\ pc = "done"
    /\ exec.ended = "failed"
    /\ ret.kind = "return"
    /\ ret.value.exitCode = JSNum(1)

\* the lines of s that hold a character other than whitespace, each counted at
\* its first such character
NonBlankLines(s) ==
    {i \in 1..Len(s) :
        /\ ~IsWhitespace(s[i])
        /\ \A j \in 1..(i - 1) :
              (\A k \in j..(i - 1) : s[k] # "\n") => IsWhitespace(s[j])}

\* C10: claudeSearch issues the three probes grep -r, find -name and
\* git log --grep in this order, whatever their outcomes, and returns three
\* entries in the same order; the matches of entry k is the number of non-blank
\* lines of the stdout of the result of probe k.
SearchThreeProbes ==
    op \in {"claudeSearch", "provider.claudeSearch"} =>
        /\ Len(commands) = 3
        /\ StartsWith(commands[1], <<"g","r","e","p"," ","-","r"," ">>)
        /\ StartsWith(commands[2], <<"f","i","n","d"," ">>)
        /\ \E i \in 1..Len(commands[2]) : MatchAt(commands[2], i, <<" ","-","n","a","m","e"," ">>)
        /\ StartsWith(commands[3], <<"g","i","t"," ","l","o","g"," ","-","-","g","r","e","p","=">>)
        /\ \A i \in 1..Len(Attempts) : Attempts[i].inv = i /\ Attempts[i].cmd = commands[i]
        /\ pc = "done" =>
             /\ Len(Attempts) = 3
             /\ ret.kind = "return"
             /\ Len(ret.value.results) = 3
             /\ \A k \in 1..3 :
                  /\ ret.value.results[k].command = commands[k]
                  /\ ret.value.results[k].matches
                        = Cardinality(NonBlankLines(results[k].stdout))

\* a search whose first probe failed and whose later probes found lines
SearchThreeProbesWitness ==
    /\ op = "claudeSearch"
    /\ pc = "done"
    /\ results[1].exitCode # JSNum(0)
    /\ ret.value.results[1].matches = 0
    /\ ret.value.results[2].matches = 2
    /\ ret.value.results[3].matches > 2
    /\ results[3].truncated

\* the dispatcher the operation went through, if any
Dispatchers == {"executeClaudeCodeCommand", "executeClaudeCommand"}

\* what the operation entered besides the dispatcher
EnteredBehindDispatcher == calls \ Dispatchers

\* the meta-command handlers of the service and of the provider
MetaCommandHandlers ==
    {"claudeSearch", "claudeAnalyze", "claudeExplain",
     "provider.claudeSearch", "provider.claudeAnalyze", "provider.claudeExplain"}

\* C11: a command whose first space-separated token is none of claude-search,
\* claude-analyze, claude-explain reaches no meta-command handler: the
\* dispatcher hands its text, unchanged, to executeCommand, which classifies
\* it; a handler is entered for the three names only.
UnrecognizedFallsThrough ==
    calls \cap Dispatchers # {} =>
        /\ CmdName(dispatched) \notin ClaudeCommandNames =>
              /\ EnteredBehindDispatcher = {"executeCommand"}
              /\ commands = <<dispatched>>
              /\ events # <<>>
              /\ events[1].ev \in {"blocked", "allowed"}
              /\ events[1].cmd = dispatched
        /\ calls \cap MetaCommandHandlers # {} =>
              CmdName(dispatched) \in ClaudeCommandNames

\* the text s occurs in the text t
OccursIn(s, t) == \E i \in 1..(Len(t) - Len(s) + 1) : MatchAt(t, i, s)

\* one read of the target has been issued, and nothing else
OneReadIssued ==
    /\ events # <<>>
    /\ events[1].cmd = <<"c","a","t"," ">> \o arg
    /\ \A k \in 1..Len(events) : events[k].inv = 1

\* C12: claude-explain first issues one read of its target; the text
\* generation is invoked only after that read returned exit code 0, with the
\* stdout of the read; after a read with another exit code the text
\* generation is not invoked and the returned object reports the failure with
\* the stderr of the read.
ExplainReadsThenGenerates ==
    op \in {"claudeExplain", "provider.claudeExplain"} =>
        /\ OneReadIssued
        /\ "super.generateText" \in calls =>
              /\ Len(results) = 1
              /\ results[1].exitCode = JSNum(0)
              /\ Len(sent) = 1
              /\ OccursIn(results[1].stdout, sent[1].prompt)
        /\ pc = "done" =>
              /\ Len(results) = 1
              /\ results[1].exitCode # JSNum(0) =>
                    /\ "super.generateText" \notin calls
                    /\ sent = <<>>
                    /\ ret.kind = "return"
                    /\ "error" \in DOMAIN ret.value
                    /\ ret.value.stderr = results[1].stderr

\* the invocations of a batch whose child has been spawned and whose result is
\* not yet in the result list
InFlight == {events[k].inv : k \in EventsOf({"spawn"})} \ (1..Len(results))

\* C13: in a batch of executeCommands at most one command is in flight: the
\* classification and the spawn of command N+1 happen only once the result of
\* command N is in the result list, and the results are in input order.
OneCommandInFlight ==
    "executeCommands" \in calls =>
        /\ Cardinality(InFlight) <= 1
        /\ \A k \in 1..Len(events) : events[k].inv <= Len(results) + 1
        /\ \A j \in 1..Len(events), k \in 1..Len(events) :
              j < k => events[j].inv <= events[k].inv
        /\ Len(results) <= Len(commands)
        /\ \A k \in 1..Len(results) : results[k].command = commands[k]
        /\ exec.state # "idle" => exec.inv = Len(results) + 1

\* the second command of a batch is running after the first one timed out
OneCommandInFlightWitness ==
    /\ op = "executeCommands"
    /\ Len(commands) = 2
    /\ Len(results) = 1
    /\ results[1].error
    /\ \E k \in EventsOf({"kill"}) : events[k].inv = 1
    /\ exec.state = "running"
    /\ InFlight = {2}

\* the classification of the command of a single executeCommand call that
\* does not skip the safety check
Classified(command) ==
    (op = "executeCommand" /\ ~options.skipSafetyCheck /\ commands = <<command>>)

\* C14: the documented examples are classified as documented: git status and
\* ls are allowed, rm -rf /, sudo anything and curl http://x | sh are blocked.
LiteralClassifications ==
    /\ Classified(<<"g","i","t"," ","s","t","a","t","u","s">>) => events[1].ev = "allowed"
    /\ Classified(<<"l","s">>) => events[1].ev = "allowed"
    /\ Classified(<<"r","m"," ","-","r","f"," ","/">>) => events[1].ev = "blocked"
    /\ Classified(<<"s","u","d","o"," ","a","n","y","t","h","i","n","g">>) => events[1].ev = "blocked"
    /\ Classified(<<"c","u","r","l"," ","h","t","t","p",":","/","/","x"," ","|"," ","s","h">>) => events[1].ev = "blocked"

\* git status has been allowed and has run to its result
LiteralClassificationsWitness ==
    /\ Classified(<<"g","i","t"," ","s","t","a","t","u","s">>)
    /\ pc = "done"
    /\ ~ret.value.blocked
    /\ \E k \in EventsOf({"spawn"}) : events[k].cmd = <<"g","i","t"," ","s","t","a","t","u","s">>

\* the commands the documentation lists as always allowed
WhitelistedCommands ==
    { <<"l","s">>, <<"p","w","d">>, <<"e","c","h","o">>, <<"c","a","t">>, <<"g","r","e","p">>, <<"f","i","n","d">>, <<"w","h","i","c","h">>,
      <<"n","p","m"," ","l","i","s","t">>, <<"n","p","m"," ","r","u","n">>, <<"y","a","r","n"," ","l","i","s","t">>, <<"y","a","r","n"," ","r","u","n">>,
      <<"g","i","t"," ","s","t","a","t","u","s">>, <<"g","i","t"," ","l","o","g">>, <<"g","i","t"," ","b","r","a","n","c","h">>, <<"g","i","t"," ","d","i","f","f">>,
      <<"n","o","d","e"," ","-","-","v","e","r","s","i","o","n">>, <<"n","p","m"," ","-","-","v","e","r","s","i","o","n">>, <<"y","a","r","n"," ","-","-","v","e","r","s","i","o","n">> }

\* the command is, or begins with, a whitelisted command
BeginsWithWhitelisted(c) == \E w \in WhitelistedCommands : StartsWith(c, w)

ListsWithoutExecuting ==
    /\ op = "generateText"
    /\ params.hasTerminalCommands
    /\ params.terminalCommands # <<>>
    /\ ~params.executeBeforeResearch

\* the content after has the content before at its start, followed by a text
\* that names every command of the list
CommandListAppended(before, after, cmds) ==
    /\ StartsWith(after, before)
    /\ \A k \in 1..Len(cmds) :
          OccursIn(<<"-"," ">> \o cmds[k], SubSeq(after, Len(before) + 1, Len(after)))

\* C16: when generateText is given terminal commands and executeBeforeResearch
\* is false, no command is classified or spawned; the command list is appended
\* to the user message and every other message goes unchanged to the
\* underlying text generation.
ListedNotExecuted ==
    (ListsWithoutExecuting /\ FindRole(params.messages, "user") # 0) =>
        /\ events = <<>>
        /\ exec = IdleExec
        /\ calls = {"generateText", "super.generateText"}
        /\ Len(sent) = 1
        /\ Len(sent[1].messages) = Len(params.messages)
        /\ \E u \in 1..Len(params.messages) :
              /\ params.messages[u].role = "user"
              /\ sent[1].messages[u].role = "user"
              /\ CommandListAppended(params.messages[u].content,
                                     sent[1].messages[u].content,
                                     params.terminalCommands)
              /\ \A k \in 1..Len(params.messages) :
                    k # u => sent[1].messages[k] = params.messages[k]

\* the child of invocation k was killed on timeout
TimedOut(k) == \E e \in EventsOf({"kill"}) : events[e].inv = k

\* C17: in executeCommands a result of a timeout and a blocked result count as
\* any result with a nonzero exit code: without continueOnError the batch ends
\* right after it with the partial list, with continueOnError the next command
\* is attempted.
TimeoutAndBlockLikeFailure ==
    op = "executeCommands" =>
        \A k \in 1..Len(results) :
            (results[k].blocked \/ TimedOut(k)) =>
                /\ results[k].exitCode # JSNum(0)
                /\ ~options.continueOnError =>
                      /\ Len(results) = k
                      /\ \A e \in 1..Len(events) : events[e].inv <= k
                      /\ pc \in {"return", "done"}
                      /\ pc = "done" => ret = Return(results)
                /\ (options.continueOnError /\ k < Len(commands)) =>
                      /\ pc \in {"return", "done"} => Len(results) > k
                      /\ pc = "done" => Len(ret.value) > k
                      /\ (pc = "await" \/ Len(results) > k) =>
                            \E e \in 1..Len(events) : events[e].inv = k + 1

\* a batch of two commands without continueOnError has returned the result of
\* the first command alone, whose child was killed on timeout
TimeoutAndBlockLikeFailureWitness ==
    /\ op = "executeCommands"
    /\ ~options.continueOnError
    /\ Len(commands) = 2
    /\ pc = "done"
    /\ Len(ret.value) = 1
    /\ TimedOut(1)
    /\ ret.value[1].error

\* the heading of the k-th result in the text of formatTerminalResults
ResultHeading(k) == <<"#","#","#"," ","C","o","m","m","a","n","d"," ">> \o Digits(k) \o <<":"," ",Backquote>>

\* where that heading stands in the text, 0 when it does not occur
HeadingAt(text, k) ==
    LET at == {i \in 1..Len(text) : MatchAt(text, i, ResultHeading(k))}
    IN  IF at = {} THEN 0 ELSE CHOOSE i \in at : \A j \in at : i <= j

\* the part of the text from the k-th heading up to the next one
SectionOf(text, k, n) ==
    SubSeq(text, HeadingAt(text, k),
           IF k < n THEN HeadingAt(text, k + 1) - 1 ELSE Len(text))

\* the output and error blocks and the notices of formatTerminalResults
ShowsOutputBlock(section, result) ==
    OccursIn(<<"*","*","O","u","t","p","u","t",":","*","*","\n",Backquote,Backquote,Backquote,"\n">> \o result.stdout \o <<"\n",Backquote,Backquote,Backquote,"\n">>, section)

ShowsErrorBlock(section, result) ==
    OccursIn(<<"*","*","E","r","r","o","r",":","*","*","\n",Backquote,Backquote,Backquote,"\n">> \o result.stderr \o <<"\n",Backquote,Backquote,Backquote,"\n">>, section)

\* the rules of the formatter on one section of formatTerminalResults
SectionFollowsRules(section, result) ==
    /\ IF result.blocked
       THEN /\ OccursIn(<<"B","l","o","c","k","e","d"," ","f","o","r"," ","s","a","f","e","t","y">>, section)
            /\ OccursIn(<<"*","*","R","e","a","s","o","n",":","*","*"," ">> \o result.stderr, section)
            /\ ~OccursIn(<<"E","x","i","t"," ","C","o","d","e">>, section)
            /\ ~OccursIn(<<"*","*","O","u","t","p","u","t",":","*","*">>, section)
       ELSE /\ OccursIn(<<"*","*","E","x","i","t"," ","C","o","d","e",":","*","*"," ">> \o ToText(result.exitCode) \o <<"\n">>, section)
            /\ ~OccursIn(<<"B","l","o","c","k","e","d"," ","f","o","r"," ","s","a","f","e","t","y">>, section)
            /\ OccursIn(<<"*","*","O","u","t","p","u","t",":","*","*">>, section) <=> result.stdout # <<>>
            /\ result.stdout # <<>> => ShowsOutputBlock(section, result)
            /\ OccursIn(<<"*","*","E","r","r","o","r",":","*","*">>, section)
                    <=> (result.stderr # <<>> /\ result.exitCode # JSNum(0))
            /\ (result.stderr # <<>> /\ result.exitCode # JSNum(0))
                    => ShowsErrorBlock(section, result)
    /\ OccursIn(<<"O","u","t","p","u","t"," ","w","a","s"," ","t","r","u","n","c","a","t","e","d">>, section) <=> result.truncated

\* formatTerminalResults renders the results in input order, each by the rules
TerminalContextFollowsRules ==
    "formatTerminalResults" \in calls =>
        /\ results = <<>> <=> formatted = <<>>
        /\ \A k \in 1..Len(results) :
              /\ HeadingAt(formatted, k) # 0
              /\ k = 1 => HeadingAt(formatted, k) = 1
              /\ k > 1 => HeadingAt(formatted, k - 1) < HeadingAt(formatted, k)
              /\ MatchAt(formatted, HeadingAt(formatted, k) + Len(ResultHeading(k)),
                         results[k].command \o <<Backquote,"\n">>)
              /\ SectionFollowsRules(SectionOf(formatted, k, Len(results)), results[k])

\* the rules of the formatter, read on the text of formatResult
DisplayAsStated(text, result) ==
    /\ OccursIn(result.command, text)
    /\ IF result.blocked
       THEN /\ OccursIn(<<"l","o","c","k","e","d"," ","f","o","r"," ","s","a","f","e","t","y">>, text)
            /\ OccursIn(result.stderr, text)
            /\ ~OccursIn(<<"O","u","t","p","u","t",":">>, text)
       ELSE /\ OccursIn(ToText(result.exitCode), text)
            /\ OccursIn(<<"O","u","t","p","u","t",":","\n">>, text) <=> result.stdout # <<>>
            /\ OccursIn(<<"E","r","r","o","r",":","\n">>, text)
                    <=> (result.stderr # <<>> /\ result.exitCode # JSNum(0))
    /\ OccursIn(<<"O","u","t","p","u","t"," ","w","a","s"," ","t","r","u","n","c","a","t","e","d">>, text) <=> result.truncated

\* what formatResult does show
DisplayAsCoded(text, result) ==
    /\ OccursIn(result.command, text)
    /\ OccursIn(<<CheckMark>>, text) <=> result.exitCode = JSNum(0)
    /\ OccursIn(<<BallotX>>, text) <=> result.exitCode # JSNum(0)
    /\ ~OccursIn(<<"B","l","o","c","k","e","d"," ","f","o","r"," ","s","a","f","e","t","y">>, text)
    /\ ~OccursIn(<<"E","x","i","t"," ","C","o","d","e">>, text)
    /\ OccursIn(<<"O","u","t","p","u","t",":","\n">>, text) <=> result.stdout # <<>>
    /\ result.stdout # <<>> => OccursIn(result.stdout \o <<"\n">>, text)
    /\ OccursIn(<<"E","r","r","o","r",":","\n">>, text) <=> result.stderr # <<>>
    /\ result.stderr # <<>> => OccursIn(result.stderr \o <<"\n">>, text)
    /\ OccursIn(<<"(","O","u","t","p","u","t"," ","w","a","s"," ","t","r","u","n","c","a","t","e","d",")">>, text) <=> result.truncated

LetThrough(command, opts) ==
    \/ opts.skipSafetyCheck
    \/ (~MatchesDangerousPattern(command) /\ StartsWithSafeCommand(command))

\* C19: executeCommandSync applies the safety gating of executeCommand: for
\* every command and every value of skipSafetyCheck each of them spawns a
\* process exactly when the gate lets the command through, hence one exactly
\* when the other, and for a blocked command each returns a nonzero exit code
\* with the block reason and spawns nothing.
SameSafetyGating ==
    /\ (op = "executeCommandSync" /\ pc = "done") =>
          /\ EventsOf({"spawn"}) # {} <=> LetThrough(commands[1], options)
          /\ ~LetThrough(commands[1], options) =>
                /\ ret.kind = "return"
                /\ ret.value.exitCode # JSNum(0)
                /\ ret.value.stderr = BlockedMessage
                /\ exec.ended = ""
    /\ (op = "executeCommand" /\ pc # "idle") =>
          /\ EventsOf({"spawn"}) # {} <=> LetThrough(commands[1], options)
          /\ (~LetThrough(commands[1], options) /\ pc # "await") =>
                /\ ret.kind = "return"
                /\ ret.value.exitCode # JSNum(0)
                /\ ret.value.stderr = BlockedMessage

\* executeCommandSync has returned the blocked result for a command that
\* executeCommand blocks too, without a child
SameSafetyGatingWitness ==
    /\ op = "executeCommandSync"
    /\ pc = "done"
    /\ ~options.skipSafetyCheck
    /\ commands = << <<"l","s"," ","|"," ","s","u","d","o"," ","x">> >>
    /\ events = << Event("blocked", 1, commands[1]) >>
    /\ ret.value.exitCode = JSNum(1)

\* the functions that run a list of commands one after the other
BatchRunners == {"executeCommands", "executeTerminalCommands"}

---------------------------------------------------------------------------
\* the classifications that the history holds for one command text
Verdicts(c) ==
    {events[i].ev : i \in {j \in DOMAIN events :
                             /\ events[j].cmd = c
                             /\ events[j].ev \in {"allowed", "blocked"}}}

\* the commands whose classification is followed through every state: one the
\* allow-list admits, one a deny pattern rejects, one that is on neither list,
\* one admitted as a prefix match, one admitted by a two-word entry
PolicyProbes ==
    BatchCommands \cup {<<"l","s","o","f">>, <<"g","i","t"," ","s","t","a","t","u","s"," ","-","l","a">>}

\* the verdict of isCommandSafe under the rule set the constructor built
VerdictAtConstruction ==
    [c \in PolicyProbes |->
        /\ ~MatchesDangerousPattern(c)
        /\ \/ FirstToken(Trim(c)) \in ConstructedSafeCommands
           \/ \E safe \in ConstructedSafeCommands : StartsWith(c, safe)]

---------------------------------------------------------------------------
\* the operations that expand a meta-command into primitive commands
Expansions ==
    {"claudeSearch", "provider.claudeSearch", "claudeAnalyze",
     "provider.claudeAnalyze", "provider.claudeExplain"}

\* C22: every primitive command that a meta-command expansion issues (search:
\* grep -r, find, git log; analyze: wc -l, file, head -20; explain: cat), for
\* an argument that contains no deny pattern, is classified allowed and is
\* spawned, never blocked, so that every result the synthesized fields are
\* taken from is the result of a command that ran.
ExpansionsAreSpawned ==
    (op \in Expansions /\ ~MatchesDangerousPattern(arg)) =>
        /\ \A i \in DOMAIN events : events[i].ev # "blocked"
        /\ \A k \in DOMAIN results :
              /\ ~results[k].blocked
              /\ \E i \in DOMAIN events : events[i] = Event("spawn", k, commands[k])

---------------------------------------------------------------------------
\* the operation is a command that fell through a dispatcher to executeCommand
FellThrough ==
    /\ op = "executeCommand"
    /\ calls \cap Dispatchers # {}

\* C23: for a command that falls through a meta-command dispatcher to ordinary
\* execution the safety check is always applied, whatever skipSafetyCheck the
\* caller put in the context: the command is classified before anything else
\* happens, and it is spawned only when the policy allows it, in the service
\* dispatcher and in the provider dispatcher alike.
FallThroughAlwaysChecked ==
    (FellThrough /\ pc # "idle") =>
        /\ ~options.skipSafetyCheck
        /\ Len(events) >= 1
        /\ events[1] = Event(IF isCommandSafe(dispatched) THEN "allowed" ELSE "blocked",
                             1, dispatched)
        /\ \A i \in DOMAIN events :
              events[i].ev = "spawn" => isCommandSafe(dispatched)

---------------------------------------------------------------------------
\* generateText is in its executeBeforeResearch branch
InExecuteTerminalCommands ==
    /\ op = "generateText"
    /\ "executeTerminalCommands" \in calls

\* command k of the list has been attempted: executeCommand classified it
Attempted(k) ==
    \E i \in DOMAIN events :
        /\ events[i].inv = k
        /\ events[i].cmd = commands[k]
        /\ events[i].ev \in {"allowed", "blocked"}

\* C24: executeTerminalCommands attempts every input command, one at a time,
\* and returns exactly one result per input command, in input order, whatever
\* happened to the earlier ones (blocked, failed, timed out): no stop-on-error
\* applies on this path.
OneResultPerTerminalCommand ==
    InExecuteTerminalCommands =>
        /\ Len(results) <= Len(commands)
        /\ \A k \in DOMAIN results :
              /\ results[k].command = commands[k]
              /\ Attempted(k)
        /\ Cardinality(InFlight) <= 1
        /\ \A i \in DOMAIN events : events[i].inv <= Len(results) + 1
        /\ pc = "loop" => idx = Len(results) + 1
        /\ pc \in {"return", "generate", "done"} => Len(results) = Len(commands)

\* the first command of two was blocked, or failed, or was killed by the
\* timeout, with the second attempted afterwards, and both results are there
\* in order when executeTerminalCommands has returned
OneResultPerTerminalCommandWitness ==
    /\ InExecuteTerminalCommands
    /\ pc = "return"
    /\ commands = <<<<"n","p","m"," ","t","e","s","t">>, <<"l","s">>>>
    /\ Len(results) = 2
    /\ results[1].blocked
    /\ results[2].command = <<"l","s">>
    /\ TimedOut(2)
    /\ results[2].exitCode # JSNum(0)

\* the continuations the event loop runs once a child has ended
FairSpec == Spec /\ WF_vars(SettleExecuteCommand)

=============================================================================
